---- MODULE Spec2Model ----
(***************************************************************************)
(* Model of the Simple-Ai-Agent chat client: ChatController (message       *)
(* handling, Chain-of-Thought splitting, history), ApiService (request     *)
(* preparation, streaming framers, token usage) and the utilities they     *)
(* use.  JavaScript strings are sequences of one-character strings.        *)
(***************************************************************************)
EXTENDS Integers, Sequences, FiniteSets, TLC

(***************************************************************************)
(* String primitives (String.prototype.indexOf / includes / startsWith /   *)
(* trim / slice as the source uses them).                                  *)
(***************************************************************************)
Min(a, b) == IF a < b THEN a ELSE b

\* s.indexOf(p, from) on 1-based positions; 0 when p does not occur.
IndexFrom(s, p, from) ==
    LET cand == {i \in from..(Len(s) - Len(p) + 1) : SubSeq(s, i, i + Len(p) - 1) = p}
    IN  IF cand = {} THEN 0 ELSE CHOOSE i \in cand : \A j \in cand : i <= j

IndexOf(s, p) == IndexFrom(s, p, 1)

Includes(s, p) == IndexOf(s, p) # 0

StartsWith(s, p) == Len(s) >= Len(p) /\ SubSeq(s, 1, Len(p)) = p

\* s.slice(n) with a 0-based start index n.
SliceFrom(s, n) == SubSeq(s, n + 1, Len(s))

\* The white space and line terminators String.prototype.trim removes and
\* parseInt skips: tab, line feed, vertical tab, form feed, carriage return,
\* space, no-break space, the space separators of Unicode, the line and
\* paragraph separators and the byte order mark.  The characters that have no
\* escape are written by their code points.
WhiteSpace ==
    {"\t", "\n", "u000B", "\f", "\r", " ", "u00A0", "u1680",
     "u2000", "u2001", "u2002", "u2003", "u2004", "u2005", "u2006", "u2007", "u2008",
     "u2009", "u200A", "u2028", "u2029", "u202F", "u205F", "u3000", "uFEFF"}

Trim(s) ==
    LET keep == {i \in 1..Len(s) : s[i] \notin WhiteSpace}
    IN  IF keep = {} THEN <<>>
        ELSE SubSeq(s, CHOOSE i \in keep : \A j \in keep : i <= j,
                       CHOOSE i \in keep : \A j \in keep : i >= j)

\* array.pop() leaves the front of the array
Front(seq) == SubSeq(seq, 1, Len(seq) - 1)

Last(seq) == seq[Len(seq)]

(***************************************************************************)
(* Literals of the source.                                                 *)
(***************************************************************************)
ThinkingMarker ==
    <<"T", "h", "i", "n", "k", "i", "n", "g", ":">>

AnswerMarker ==
    <<"A", "n", "s", "w", "e", "r", ":">>

DataPrefix ==
    <<"d", "a", "t", "a", ":", " ">>

DoneLiteral ==
    <<"[", "D", "O", "N", "E", "]">>

GptPrefix ==
    <<"g", "p", "t">>

GeminiPrefix ==
    <<"g", "e", "m", "i", "n", "i">>

GemmaPrefix ==
    <<"g", "e", "m", "m", "a">>

CoTInstructionShow ==
    <<"T", "h", "i", "n", "k", " ", "s", "t", "e", "p", " ", "b", "y", " ", "s", "t", "e", "p",
      " ", "a", "b", "o", "u", "t", " ", "t", "h", "i", "s", " ", "p", "r", "o", "b", "l", "e",
      "m", ".", " ", "F", "i", "r", "s", "t", " ", "r", "e", "a", "s", "o", "n", " ", "t", "h",
      "r", "o", "u", "g", "h", " ", "t", "h", "e", " ", "p", "r", "o", "b", "l", "e", "m", " ",
      "c", "l", "e", "a", "r", "l", "y", " ", "a", "n", "d", " ", "e", "x", "p", "l", "a", "i",
      "n", " ", "y", "o", "u", "r", " ", "t", "h", "i", "n", "k", "i", "n", "g", " ", "p", "r",
      "o", "c", "e", "s", "s", ",", " ", "t", "h", "e", "n", " ", "g", "i", "v", "e", " ", "y",
      "o", "u", "r", " ", "f", "i", "n", "a", "l", " ", "a", "n", "s", "w", "e", "r", ".">>

CoTInstructionHide ==
    <<"S", "o", "l", "v", "e", " ", "t", "h", "i", "s", " ", "s", "t", "e", "p", " ", "b", "y",
      " ", "s", "t", "e", "p", ",", " ", "b", "u", "t", " ", "o", "n", "l", "y", " ", "s", "h",
      "o", "w", " ", "y", "o", "u", "r", " ", "f", "i", "n", "a", "l", " ", "a", "n", "s", "w",
      "e", "r", ".">>

ModelGptMini ==
    <<"g", "p", "t", "-", "4", ".", "1", "-", "m", "i", "n", "i">>

ModelGptNano ==
    <<"g", "p", "t", "-", "4", ".", "1", "-", "n", "a", "n", "o">>

ModelGeminiFlash ==
    <<"g", "e", "m", "i", "n", "i", "-", "2", ".", "0", "-", "f", "l", "a", "s", "h">>

ModelGemma ==
    <<"g", "e", "m", "m", "a", "-", "3", "-", "2", "7", "b", "-", "i", "t">>

ModelGptOther ==
    <<"g", "p", "t", "-", "4", "o">>

ModelGeminiOther ==
    <<"g", "e", "m", "i", "n", "i", "-", "p", "r", "o">>

ModelOther ==
    <<"c", "l", "a", "u", "d", "e", "-", "3">>

\* The placeholder literal of ChatController (four non-ASCII characters, each
\* written here by its code point, then " Thinking...").
ThinkingPlaceholder ==
    <<"u00F0", "u0178", "u00A4", "u201D", " ", "T", "h", "i", "n", "k", "i", "n", "g", ".", ".", ".">>

\* "\n\n" between the user text and the CoT instruction
TwoNewlines == <<"\n", "\n">>

(***************************************************************************)
(* utils.decrypt: XOR of 3-digit decimal groups with a repeating key.      *)
(* The decrypted string is the sequence of its UTF-16 code units.          *)
(***************************************************************************)
Ascii ==
    <<" ", "!", "\"", "#", "$", "%", "&", "'", "(", ")", "*", "+", ",", "-", ".", "/", "0", "1",
      "2", "3", "4", "5", "6", "7", "8", "9", ":", ";", "<", "=", ">", "?", "@", "A", "B", "C",
      "D", "E", "F", "G", "H", "I", "J", "K", "L", "M", "N", "O", "P", "Q", "R", "S", "T", "U",
      "V", "W", "X", "Y", "Z", "[", "\\", "]", "^", "_", "u0060", "a", "b", "c", "d", "e", "f", "g",
      "h", "i", "j", "k", "l", "m", "n", "o", "p", "q", "r", "s", "t", "u", "v", "w", "x", "y",
      "z", "{", "|", "}", "~">>

\* c.charCodeAt(0) for a printable ASCII character
CharCode(c) == 31 + (CHOOSE i \in 1..Len(Ascii) : Ascii[i] = c)

DigitChars == <<"0", "1", "2", "3", "4", "5", "6", "7", "8", "9">>

\* The digits of parseInt, each at its value plus one; the upper-case letters
\* follow at the values of the lower-case ones.
RadixDigits ==
    DigitChars \o <<"a", "b", "c", "d", "e", "f">> \o <<"A", "B", "C", "D", "E", "F">>

RadixDigitVal(c) ==
    LET i == CHOOSE j \in 1..Len(RadixDigits) : RadixDigits[j] = c
    IN  IF i <= 16 THEN i - 1 ELSE i - 7

\* c is a digit of the radix (10 or 16)
IsRadixDigit(c, radix) ==
    /\ \E j \in 1..Len(RadixDigits) : RadixDigits[j] = c
    /\ RadixDigitVal(c) < radix

\* Value of the longest prefix of s made of digits of the radix, 0 when that
\* prefix is empty.
RECURSIVE ParseDigits(_, _, _)
ParseDigits(s, radix, acc) ==
    IF s = <<>> \/ ~IsRadixDigit(Head(s), radix) THEN acc
    ELSE ParseDigits(Tail(s), radix, radix * acc + RadixDigitVal(Head(s)))

\* s without its leading white space
RECURSIVE TrimStart(_)
TrimStart(s) ==
    IF s # <<>> /\ Head(s) \in WhiteSpace THEN TrimStart(Tail(s)) ELSE s

\* parseInt(numStr), no radix given: leading white space is skipped, then an
\* optional sign, then an optional 0x or 0X prefix that selects radix 16; the
\* value is that of the longest prefix of digits. The result is NaN when
\* there is no digit; NaN is written 0 here, the value the ^ operator of
\* decrypt converts it to.  (decrypt parses groups of at most three
\* characters, whose values are exact.)
ParseInt(numStr) ==
    LET trimmed == TrimStart(numStr)
        signed == trimmed # <<>> /\ Head(trimmed) \in {"+", "-"}
        unsigned == IF signed THEN Tail(trimmed) ELSE trimmed
        hex == Len(unsigned) >= 2 /\ unsigned[1] = "0" /\ unsigned[2] \in {"x", "X"}
        digits == IF hex THEN SubSeq(unsigned, 3, Len(unsigned)) ELSE unsigned
        magnitude == ParseDigits(digits, IF hex THEN 16 ELSE 10, 0)
    IN  IF signed /\ Head(trimmed) = "-" THEN 0 - magnitude ELSE magnitude

\* a ^ b on non-negative integers
RECURSIVE BitXorNat(_, _)
BitXorNat(a, b) ==
    IF a = 0 /\ b = 0 THEN 0
    ELSE (((a % 2) + (b % 2)) % 2) + 2 * BitXorNat(a \div 2, b \div 2)

\* a ^ b on 32-bit two's complement integers: a negative operand is the
\* complement ~x = -x - 1 of a non-negative one, and ~x ^ y = ~(x ^ y),
\* ~x ^ ~y = x ^ y
BitXor(a, b) ==
    LET not(x) == 0 - x - 1
    IN  IF a >= 0 /\ b >= 0 THEN BitXorNat(a, b)
        ELSE IF a < 0 /\ b < 0 THEN BitXorNat(not(a), not(b))
        ELSE IF a < 0 THEN not(BitXorNat(not(a), b))
        ELSE not(BitXorNat(a, not(b)))

\* decrypt(ciphertext, key): the code units of decoded.  String.fromCharCode
\* appends its argument modulo 2^16.
decrypt(ciphertext, key) ==
    LET n == (Len(ciphertext) + 2) \div 3
    IN  [g \in 1..n |->
            LET i == 3 * (g - 1)
                numStr == SubSeq(ciphertext, i + 1, Min(i + 3, Len(ciphertext)))
                encryptedChar == ParseInt(numStr)
                keyChar == CharCode(key[((i \div 3) % Len(key)) + 1])
                decryptedChar == BitXor(encryptedChar, keyChar)
            IN  decryptedChar % 65536]

\* n.toString() for a non-negative integer
RECURSIVE ToDigits(_)
ToDigits(n) ==
    IF n < 10 THEN <<DigitChars[n + 1]>>
    ELSE ToDigits(n \div 10) \o <<DigitChars[(n % 10) + 1]>>

\* '0' repeated n times
PadStart3Fill(n) == [i \in 1..n |-> "0"]

\* s.padStart(3, '0')
PadStart3(s) == IF Len(s) >= 3 THEN s ELSE PadStart3Fill(3 - Len(s)) \o s

\* encrypt without the padding of each code to three digits
RECURSIVE encryptUnpadded(_, _)
encryptUnpadded(text, key) ==
    IF text = <<>> THEN <<>>
    ELSE encryptUnpadded(Front(text), key)
         \o ToDigits(BitXor(CharCode(Last(text)),
                             CharCode(key[((Len(text) - 1) % Len(key)) + 1])))

\* encrypt(text, key): for each byte of the text its XOR with the key's
\* character code, in three decimal digits
RECURSIVE encrypt(_, _)
encrypt(text, key) ==
    IF text = <<>> THEN <<>>
    ELSE encrypt(Front(text), key)
         \o PadStart3(ToDigits(BitXor(CharCode(Last(text)),
                                       CharCode(key[((Len(text) - 1) % Len(key)) + 1]))))

ENCRYPTED_OPENAI_KEY ==
    <<"0", "6", "9", "0", "8", "9", "0", "2", "6", "0", "6", "6", "0", "7", "5", "0", "8", "9",
      "0", "9", "2", "0", "3", "1", "0", "0", "2", "0", "0", "3", "0", "9", "9", "0", "8", "1",
      "0", "9", "8", "0", "6", "4", "0", "8", "2", "1", "2", "5", "0", "8", "5", "1", "0", "8",
      "0", "9", "3", "0", "0", "6", "1", "2", "3", "1", "0", "9", "0", "8", "4", "0", "8", "7",
      "0", "6", "9", "0", "1", "0", "0", "9", "7", "0", "9", "4", "1", "1", "4", "0", "9", "1",
      "1", "1", "5", "0", "1", "0", "0", "2", "6", "0", "9", "3", "0", "9", "5", "0", "6", "9",
      "1", "2", "6", "0", "8", "8", "0", "0", "0", "1", "0", "7", "0", "9", "5", "1", "2", "1",
      "0", "8", "3", "1", "0", "4", "0", "1", "5", "1", "1", "5", "0", "9", "4", "0", "8", "1",
      "1", "1", "6", "1", "2", "2", "0", "8", "2", "0", "0", "1", "1", "1", "0", "0", "8", "3",
      "0", "9", "1", "1", "1", "2", "1", "1", "1", "0", "3", "1", "1", "0", "7", "1", "2", "3",
      "1", "2", "5", "0", "8", "9", "1", "0", "2", "0", "7", "5", "1", "0", "9", "0", "9", "0",
      "0", "0", "7", "0", "9", "1", "1", "0", "1", "0", "9", "8", "0", "1", "1", "0", "8", "4",
      "0", "9", "3", "0", "9", "4", "0", "9", "1", "0", "8", "1", "0", "9", "1", "0", "6", "5",
      "1", "2", "5", "0", "9", "2", "0", "0", "0", "0", "9", "5", "1", "0", "9", "0", "0", "5",
      "1", "1", "6", "0", "9", "4", "0", "8", "5", "0", "8", "9", "1", "2", "7", "1", "2", "4",
      "0", "6", "5", "1", "0", "2", "1", "0", "1", "1", "1", "7", "0", "1", "1", "0", "0", "3",
      "1", "2", "5", "1", "0", "2", "0", "0", "7", "0", "7", "0", "0", "1", "4", "1", "2", "3",
      "1", "2", "6", "1", "2", "0", "0", "6", "4", "0", "0", "2", "1", "1", "8", "0", "1", "5",
      "1", "0", "1", "0", "9", "3", "1", "2", "2", "0", "6", "7", "1", "0", "5", "1", "1", "9",
      "0", "9", "0", "1", "1", "2", "1", "2", "0", "1", "1", "3", "0", "9", "3", "1", "2", "5",
      "0", "8", "1", "0", "8", "6", "1", "1", "3", "1", "2", "2", "1", "1", "8", "1", "1", "3",
      "0", "0", "1", "1", "2", "0", "1", "2", "3", "0", "1", "1", "1", "2", "5", "0", "9", "2",
      "0", "8", "5", "1", "0", "3", "0", "0", "7", "0", "8", "6", "1", "0", "8", "1", "1", "9",
      "1", "1", "9", "0", "0", "7", "0", "8", "3", "1", "1", "9", "0", "1", "4", "1", "2", "5",
      "0", "1", "5", "1", "1", "2", "1", "2", "4", "1", "0", "6", "0", "0", "0", "1", "2", "0",
      "0", "8", "7", "0", "0", "4", "0", "9", "8", "1", "2", "4", "0", "9", "3", "1", "1", "7",
      "0", "9", "0", "0", "6", "6", "0", "0", "0", "1", "1", "6", "1", "1", "3", "0", "9", "5",
      "0", "8", "1", "1", "1", "5">>

\* API_ENDPOINTS: the model ids the table knows, with their provider.
API_ENDPOINTS ==
    (ModelGptMini :> "openai") @@ (ModelGptNano :> "openai") @@
    (ModelGeminiFlash :> "google") @@ (ModelGemma :> "google")

\* The names API_ENDPOINTS inherits from Object.prototype: API_ENDPOINTS[name]
\* is a function (for __proto__ the prototype object), a truthy value without
\* a provider and without an endpoint.
ObjectPrototypeNames ==
    { <<"c", "o", "n", "s", "t", "r", "u", "c", "t", "o", "r">>,
      <<"t", "o", "S", "t", "r", "i", "n", "g">>,
      <<"t", "o", "L", "o", "c", "a", "l", "e", "S", "t", "r", "i", "n", "g">>,
      <<"v", "a", "l", "u", "e", "O", "f">>,
      <<"h", "a", "s", "O", "w", "n", "P", "r", "o", "p", "e", "r", "t", "y">>,
      <<"i", "s", "P", "r", "o", "t", "o", "t", "y", "p", "e", "O", "f">>,
      <<"p", "r", "o", "p", "e", "r", "t", "y", "I", "s", "E", "n", "u", "m", "e", "r", "a",
        "b", "l", "e">>,
      <<"_", "_", "p", "r", "o", "t", "o", "_", "_">>,
      <<"_", "_", "d", "e", "f", "i", "n", "e", "G", "e", "t", "t", "e", "r", "_", "_">>,
      <<"_", "_", "d", "e", "f", "i", "n", "e", "S", "e", "t", "t", "e", "r", "_", "_">>,
      <<"_", "_", "l", "o", "o", "k", "u", "p", "G", "e", "t", "t", "e", "r", "_", "_">>,
      <<"_", "_", "l", "o", "o", "k", "u", "p", "S", "e", "t", "t", "e", "r", "_", "_">> }

\* const endpointDetails = API_ENDPOINTS[model]: the property lookup, with
\* the provider of the value found ("undefined" when it has none)
endpointDetails(model) ==
    IF model \in DOMAIN API_ENDPOINTS
    THEN [truthy |-> TRUE, provider |-> API_ENDPOINTS[model]]
    ELSE IF model \in ObjectPrototypeNames
    THEN [truthy |-> TRUE, provider |-> "undefined"]
    ELSE [truthy |-> FALSE, provider |-> "undefined"]

(***************************************************************************)
(* ChatController: the Chain-of-Thought splitter.                          *)
(***************************************************************************)
\* the match of /Thinking:(.*)$/s, which captures greedily to the end
ThinkingMatchGreedy(s) ==
    LET i == IndexOf(s, ThinkingMarker)
    IN  IF i = 0 THEN [found |-> FALSE, group |-> <<>>]
        ELSE [found |-> TRUE, group |-> SubSeq(s, i + Len(ThinkingMarker), Len(s))]

\* response.match(/Thinking:(.*?)(?=Answer:|$)/s): the leftmost "Thinking:",
\* capturing lazily up to the next "Answer:" or the end of the string.
ThinkingMatch(s) ==
    LET i == IndexOf(s, ThinkingMarker)
        from == i + Len(ThinkingMarker)
        j == IndexFrom(s, AnswerMarker, from)
    IN  IF i = 0 THEN [found |-> FALSE, group |-> <<>>]
        ELSE [found |-> TRUE,
              group |-> SubSeq(s, from, IF j = 0 THEN Len(s) ELSE j - 1)]

\* response.match(/Answer:(.*?)$/s): the leftmost "Answer:", capturing to the
\* end of the string.
AnswerMatch(s) ==
    LET i == IndexOf(s, AnswerMarker)
    IN  IF i = 0 THEN [found |-> FALSE, group |-> <<>>]
        ELSE [found |-> TRUE, group |-> SubSeq(s, i + Len(AnswerMarker), Len(s))]

\* s.replace(/^Thinking:/, '')
StripLeadingThinking(s) ==
    IF StartsWith(s, ThinkingMarker) THEN SliceFrom(s, Len(ThinkingMarker)) ELSE s

\* s.replace(/^.*?Thinking:/s, ''): drops everything up to and including the
\* first "Thinking:".
StripThroughThinking(s) ==
    LET i == IndexOf(s, ThinkingMarker)
    IN  IF i = 0 THEN s ELSE SubSeq(s, i + Len(ThinkingMarker), Len(s))

\* The processed object; a field the source leaves undefined is FALSE / "".
Processed(thinking, answer, structured, partial, stage) ==
    [thinking |-> thinking, answer |-> answer, hasStructuredResponse |-> structured,
     partial |-> partial, stage |-> stage]

\* processCoTResponse(response) with this.lastThinkingContent and
\* this.lastAnswerContent passed in; returns the processed object and the new
\* values of the two fields.
processCoTResponse(response, lastThinking, lastAnswer) ==
    LET thinkingMatch == ThinkingMatch(response)
        answerMatch == AnswerMatch(response)
    IN  IF thinkingMatch.found /\ answerMatch.found THEN
            LET thinking == Trim(thinkingMatch.group)
                answer == Trim(answerMatch.group)
            IN  [processed |-> Processed(thinking, answer, TRUE, FALSE, ""),
                 lastThinkingContent |-> thinking, lastAnswerContent |-> answer]
        ELSE IF StartsWith(response, ThinkingMarker) /\ ~Includes(response, AnswerMarker) THEN
            LET thinking == Trim(StripLeadingThinking(response))
            IN  [processed |-> Processed(thinking, lastAnswer, TRUE, TRUE, "thinking"),
                 lastThinkingContent |-> thinking, lastAnswerContent |-> lastAnswer]
        ELSE IF Includes(response, ThinkingMarker) /\ ~thinkingMatch.found THEN
            LET thinking == ThinkingMarker \o StripThroughThinking(response)
            IN  [processed |-> Processed(Trim(StripLeadingThinking(thinking)), <<>>, FALSE, TRUE, ""),
                 lastThinkingContent |-> lastThinking, lastAnswerContent |-> lastAnswer]
        ELSE
            [processed |-> Processed(<<>>, response, FALSE, FALSE, ""),
             lastThinkingContent |-> lastThinking, lastAnswerContent |-> lastAnswer]

\* processPartialCoTResponse that strips a "Thinking:" only at the start
processPartialLeadingOnly(fullText) ==
    IF Includes(fullText, ThinkingMarker) /\ ~Includes(fullText, AnswerMarker) THEN
        Processed(Trim(StripLeadingThinking(fullText)), <<>>, TRUE, TRUE, "thinking")
    ELSE IF Includes(fullText, ThinkingMarker) /\ Includes(fullText, AnswerMarker)
            /\ ThinkingMatch(fullText).found /\ AnswerMatch(fullText).found THEN
        Processed(Trim(ThinkingMatch(fullText).group), Trim(AnswerMatch(fullText).group),
                  TRUE, FALSE, "")
    ELSE
        Processed(<<>>, fullText, FALSE, FALSE, "")

processPartialCoTResponse(fullText) ==
    IF Includes(fullText, ThinkingMarker) /\ ~Includes(fullText, AnswerMarker) THEN
        Processed(Trim(StripThroughThinking(fullText)), <<>>, TRUE, TRUE, "thinking")
    ELSE IF Includes(fullText, ThinkingMarker) /\ Includes(fullText, AnswerMarker)
            /\ ThinkingMatch(fullText).found /\ AnswerMatch(fullText).found THEN
        Processed(Trim(ThinkingMatch(fullText).group), Trim(AnswerMatch(fullText).group),
                  TRUE, FALSE, "")
    ELSE
        Processed(<<>>, fullText, FALSE, FALSE, "")

\* "Thinking: " and "\n\nAnswer: " of the display templates
ThinkingLabel == ThinkingMarker \o <<" ">>

AnswerLabel == TwoNewlines \o AnswerMarker \o <<" ">>

\* formatResponseForDisplay that shows a partial thinking view without its label
formatResponseWithoutLabel(processed, s) ==
    IF ~s.enableCoT \/ ~processed.hasStructuredResponse THEN processed.answer
    ELSE IF s.showThinking THEN
        IF processed.partial THEN processed.thinking
        ELSE ThinkingLabel \o processed.thinking \o AnswerLabel \o processed.answer
    ELSE
        IF processed.answer # <<>> THEN processed.answer ELSE ThinkingPlaceholder

\* formatResponseForDisplay(processed) with this.settings passed in
formatResponseForDisplay(processed, s) ==
    IF ~s.enableCoT \/ ~processed.hasStructuredResponse THEN processed.answer
    ELSE IF s.showThinking THEN
        IF processed.partial /\ processed.stage = "thinking" THEN
            ThinkingLabel \o processed.thinking
        ELSE IF processed.partial THEN processed.thinking
        ELSE ThinkingLabel \o processed.thinking \o AnswerLabel \o processed.answer
    ELSE
        IF processed.answer # <<>> THEN processed.answer ELSE ThinkingPlaceholder

(***************************************************************************)
(* Wire format of the streaming responses.                                 *)
(***************************************************************************)
\* {"choices":[{"delta":{"content":"a"}}]}
OpenAIDocA ==
    <<"{", "\"", "c", "h", "o", "i", "c", "e", "s", "\"", ":", "[", "{", "\"", "d", "e", "l", "t",
      "a", "\"", ":", "{", "\"", "c", "o", "n", "t", "e", "n", "t", "\"", ":", "\"", "a", "\"",
      "}", "}", "]", "}">>

\* {"choices":[{"delta":{"content":"b"}}]}
OpenAIDocB ==
    <<"{", "\"", "c", "h", "o", "i", "c", "e", "s", "\"", ":", "[", "{", "\"", "d", "e", "l", "t",
      "a", "\"", ":", "{", "\"", "c", "o", "n", "t", "e", "n", "t", "\"", ":", "\"", "b", "\"",
      "}", "}", "]", "}">>

\* {"choices":[{"delta":{}}]}
OpenAIDocNoContent ==
    <<"{", "\"", "c", "h", "o", "i", "c", "e", "s", "\"", ":", "[", "{", "\"", "d", "e", "l", "t",
      "a", "\"", ":", "{", "}", "}", "]", "}">>

\* {"choices":[{"delta":{"content":"a
OpenAIDocMalformed ==
    <<"{", "\"", "c", "h", "o", "i", "c", "e", "s", "\"", ":", "[", "{", "\"", "d", "e", "l", "t",
      "a", "\"", ":", "{", "\"", "c", "o", "n", "t", "e", "n", "t", "\"", ":", "\"", "a">>

\* {"candidates":[{"content":{"parts":[{"text":"a"}]}}]}
GeminiDocA ==
    <<"{", "\"", "c", "a", "n", "d", "i", "d", "a", "t", "e", "s", "\"", ":", "[", "{", "\"", "c",
      "o", "n", "t", "e", "n", "t", "\"", ":", "{", "\"", "p", "a", "r", "t", "s", "\"", ":", "[",
      "{", "\"", "t", "e", "x", "t", "\"", ":", "\"", "a", "\"", "}", "]", "}", "}", "]", "}">>

\* {"candidates":[{"content":{"parts":[{"text":"b"}]}}]}
GeminiDocB ==
    <<"{", "\"", "c", "a", "n", "d", "i", "d", "a", "t", "e", "s", "\"", ":", "[", "{", "\"", "c",
      "o", "n", "t", "e", "n", "t", "\"", ":", "{", "\"", "p", "a", "r", "t", "s", "\"", ":", "[",
      "{", "\"", "t", "e", "x", "t", "\"", ":", "\"", "b", "\"", "}", "]", "}", "}", "]", "}">>

\* {"candidates":[{"content":{"parts":[{"text":"a"},{"text":"b"}]}}]}
GeminiDocTwoParts ==
    <<"{", "\"", "c", "a", "n", "d", "i", "d", "a", "t", "e", "s", "\"", ":", "[", "{", "\"", "c",
      "o", "n", "t", "e", "n", "t", "\"", ":", "{", "\"", "p", "a", "r", "t", "s", "\"", ":", "[",
      "{", "\"", "t", "e", "x", "t", "\"", ":", "\"", "a", "\"", "}", ",", "{", "\"", "t", "e",
      "x", "t", "\"", ":", "\"", "b", "\"", "}", "]", "}", "}", "]", "}">>

\* {"candidates":[{"content":{"parts":[{}]}}]}
GeminiDocNoText ==
    <<"{", "\"", "c", "a", "n", "d", "i", "d", "a", "t", "e", "s", "\"", ":", "[", "{", "\"", "c",
      "o", "n", "t", "e", "n", "t", "\"", ":", "{", "\"", "p", "a", "r", "t", "s", "\"", ":", "[",
      "{", "}", "]", "}", "}", "]", "}">>

\* {"candidates":[{"content":{"parts":[{"text":"a
GeminiDocMalformed ==
    <<"{", "\"", "c", "a", "n", "d", "i", "d", "a", "t", "e", "s", "\"", ":", "[", "{", "\"", "c",
      "o", "n", "t", "e", "n", "t", "\"", ":", "{", "\"", "p", "a", "r", "t", "s", "\"", ":", "[",
      "{", "\"", "t", "e", "x", "t", "\"", ":", "\"", "a">>

\* cotStartMarker / cotEndMarker of handleStreamingResponse: three backticks
cotStartMarker == <<"u0060", "u0060", "u0060">>

cotEndMarker == <<"u0060", "u0060", "u0060">>

\* {"choices":[{"delta":{"content":"u0060u0060u0060"}}]}
OpenAIDocFence ==
    <<"{", "\"", "c", "h", "o", "i", "c", "e", "s", "\"", ":", "[", "{", "\"", "d", "e", "l", "t",
      "a", "\"", ":", "{", "\"", "c", "o", "n", "t", "e", "n", "t", "\"", ":", "\"", "u0060",
      "u0060", "u0060", "\"", "}", "}", "]", "}">>

\* {"candidates":[{"content":{"parts":[{"text":"u0060u0060u0060"}]}}]}
GeminiDocFence ==
    <<"{", "\"", "c", "a", "n", "d", "i", "d", "a", "t", "e", "s", "\"", ":", "[", "{", "\"", "c",
      "o", "n", "t", "e", "n", "t", "\"", ":", "{", "\"", "p", "a", "r", "t", "s", "\"", ":", "[",
      "{", "\"", "t", "e", "x", "t", "\"", ":", "\"", "u0060", "u0060", "u0060", "\"", "}", "]",
      "}", "}", "]", "}">>

\* What the code reads of a parsed document: choices[0].delta.content (empty
\* when absent) and the text of each element of candidates[0].content.parts
\* (empty when absent).
JsonValue(deltaContent, parts) == [deltaContent |-> deltaContent, parts |-> parts]

\* The JSON documents that occur on the wire of the model, with their values.
\* Every other payload the responses of the model can carry (a truncated
\* document, two frames run together, the empty string) is not valid JSON.
JsonDocuments ==
    (OpenAIDocA :> JsonValue(<<"a">>, <<>>)) @@
    (OpenAIDocB :> JsonValue(<<"b">>, <<>>)) @@
    (OpenAIDocNoContent :> JsonValue(<<>>, <<>>)) @@
    (OpenAIDocFence :> JsonValue(cotStartMarker, <<>>)) @@
    (GeminiDocFence :> JsonValue(<<>>, <<cotStartMarker>>)) @@
    (GeminiDocA :> JsonValue(<<>>, << <<"a">> >>)) @@
    (GeminiDocB :> JsonValue(<<>>, << <<"b">> >>)) @@
    (GeminiDocTwoParts :> JsonValue(<<>>, << <<"a">>, <<"b">> >>)) @@
    (GeminiDocNoText :> JsonValue(<<>>, << <<>> >>))

\* text without the white space the JSON grammar admits before and after a
\* value: space, tab, line feed, carriage return
RECURSIVE JsonStrip(_)
JsonStrip(text) ==
    IF text = <<>> THEN text
    ELSE IF Head(text) \in {" ", "\t", "\n", "\r"} THEN JsonStrip(Tail(text))
    ELSE IF Last(text) \in {" ", "\t", "\n", "\r"} THEN JsonStrip(Front(text))
    ELSE text

\* JSON.parse(text): ok is FALSE when it throws
JsonParse(text) ==
    LET document == JsonStrip(text)
    IN  IF document \in DOMAIN JsonDocuments
        THEN [ok |-> TRUE, value |-> JsonDocuments[document]]
        ELSE [ok |-> FALSE, value |-> JsonValue(<<>>, <<>>)]

\* Length of the match of /\r?\n\r?\n/ that starts at position i of s, 0 when
\* there is none.
EventSeparatorAt(s, i) ==
    LET at(j) == IF j <= Len(s) THEN s[j] ELSE ""
    IN  IF at(i) = "\r" /\ at(i + 1) = "\n" /\ at(i + 2) = "\r" /\ at(i + 3) = "\n" THEN 4
        ELSE IF at(i) = "\r" /\ at(i + 1) = "\n" /\ at(i + 2) = "\n" THEN 3
        ELSE IF at(i) = "\n" /\ at(i + 1) = "\r" /\ at(i + 2) = "\n" THEN 3
        ELSE IF at(i) = "\n" /\ at(i + 1) = "\n" THEN 2
        ELSE 0

\* Length of the match of /\r?\n/ that starts at position i of s, 0 when none.
LineSeparatorAt(s, i) ==
    LET at(j) == IF j <= Len(s) THEN s[j] ELSE ""
    IN  IF at(i) = "\r" /\ at(i + 1) = "\n" THEN 2
        ELSE IF at(i) = "\n" THEN 1
        ELSE 0

\* s.split(/\r?\n\r?\n/): the pieces between the leftmost non-overlapping
\* matches, the last piece included.
RECURSIVE SplitEvents(_)
SplitEvents(s) ==
    LET hits == {i \in 1..Len(s) : EventSeparatorAt(s, i) > 0}
    IN  IF hits = {} THEN <<s>>
        ELSE LET i == CHOOSE h \in hits : \A g \in hits : h <= g
             IN  <<SubSeq(s, 1, i - 1)>>
                 \o SplitEvents(SubSeq(s, i + EventSeparatorAt(s, i), Len(s)))

\* s.split(/\r?\n/)
RECURSIVE SplitLines(_)
SplitLines(s) ==
    LET hits == {i \in 1..Len(s) : LineSeparatorAt(s, i) > 0}
    IN  IF hits = {} THEN <<s>>
        ELSE LET i == CHOOSE h \in hits : \A g \in hits : h <= g
             IN  <<SubSeq(s, 1, i - 1)>>
                 \o SplitLines(SubSeq(s, i + LineSeparatorAt(s, i), Len(s)))

\* utils.parseSSELine(line): kind "null" (not a data line, or JSON.parse threw),
\* "done" or "data"
parseSSELineDoneOnError(line) ==
    IF ~StartsWith(line, DataPrefix) THEN [kind |-> "null", data |-> JsonValue(<<>>, <<>>)]
    ELSE LET dataStr == Trim(SliceFrom(line, 6))
         IN  IF dataStr = DoneLiteral THEN [kind |-> "done", data |-> JsonValue(<<>>, <<>>)]
             ELSE IF JsonParse(dataStr).ok
                  THEN [kind |-> "data", data |-> JsonParse(dataStr).value]
                  ELSE [kind |-> "done", data |-> JsonValue(<<>>, <<>>)]

parseSSELine(line) ==
    IF ~StartsWith(line, DataPrefix) THEN [kind |-> "null", data |-> JsonValue(<<>>, <<>>)]
    ELSE LET dataStr == Trim(SliceFrom(line, 6))
         IN  IF dataStr = DoneLiteral THEN [kind |-> "done", data |-> JsonValue(<<>>, <<>>)]
             ELSE IF JsonParse(dataStr).ok
                  THEN [kind |-> "data", data |-> JsonParse(dataStr).value]
                  ELSE [kind |-> "null", data |-> JsonValue(<<>>, <<>>)]

(***************************************************************************)
(* ApiService.streamOpenAIRequest and streamGeminiRequest: one pass of the  *)
(* read loop.  The loop state is fullReply, the deltas handed to onChunk,   *)
(* done, and two counters of the lines examined (all, and after [DONE]).    *)
(***************************************************************************)
LoopState(fullReply, chunks, done) ==
    [fullReply |-> fullReply, chunks |-> chunks, done |-> done, sawDone |-> FALSE,
     examined |-> 0, afterDone |-> 0]

Examine(acc) ==
    [acc EXCEPT !.examined = @ + 1, !.afterDone = IF acc.sawDone THEN @ + 1 ELSE @]

\* the loop over the lines of one event without its break
RECURSIVE OpenAILinesNoBreak(_, _)
OpenAILinesNoBreak(lines, acc) ==
    IF lines = <<>> THEN acc
    ELSE LET parsed == parseSSELine(Head(lines))
             a == Examine(acc)
         IN  IF parsed.kind = "null" THEN OpenAILinesNoBreak(Tail(lines), a)
             ELSE IF parsed.kind = "done"
                  THEN OpenAILinesNoBreak(Tail(lines), [a EXCEPT !.done = TRUE, !.sawDone = TRUE])
             ELSE IF parsed.data.deltaContent # <<>>
                  THEN OpenAILinesNoBreak(Tail(lines),
                           [a EXCEPT !.fullReply = @ \o parsed.data.deltaContent,
                                     !.chunks = Append(@, parsed.data.deltaContent)])
             ELSE OpenAILinesNoBreak(Tail(lines), a)

\* for (const line of lines) { ... } of streamOpenAIRequest
RECURSIVE OpenAILines(_, _)
OpenAILines(lines, acc) ==
    IF lines = <<>> THEN acc
    ELSE LET parsed == parseSSELine(Head(lines))
             a == Examine(acc)
         IN  IF parsed.kind = "null" THEN OpenAILines(Tail(lines), a)
             ELSE IF parsed.kind = "done" THEN [a EXCEPT !.done = TRUE, !.sawDone = TRUE]
             ELSE IF parsed.data.deltaContent # <<>>
                  THEN OpenAILines(Tail(lines),
                           [a EXCEPT !.fullReply = @ \o parsed.data.deltaContent,
                                     !.chunks = Append(@, parsed.data.deltaContent)])
             ELSE OpenAILines(Tail(lines), a)

\* for (const ev of events) { ...; if (done) break; }
RECURSIVE OpenAIEvents(_, _)
OpenAIEvents(events, acc) ==
    IF events = <<>> THEN acc
    ELSE LET a == OpenAILines(SplitLines(Head(events)), acc)
         IN  IF a.done THEN a ELSE OpenAIEvents(Tail(events), a)

\* what eventBuffer keeps after events.pop(), without the retained event
OpenAIKeepNothing(events) == <<>>

\* eventBuffer = events.pop()
OpenAIKeep(events) == Last(events)

\* One pass of the while loop of streamOpenAIRequest: value is the text the read
\* delivered (empty with doneReading).
OpenAIPass(eventBuffer, value, doneReading, acc) ==
    LET events == SplitEvents(eventBuffer \o value)
        a == OpenAIEvents(Front(events), [acc EXCEPT !.done = doneReading])
    IN  [buffer |-> OpenAIKeep(events), acc |-> a]

\* the loop over the lines that hands each text chunk to onChunk twice
RECURSIVE GeminiLinesTwice(_, _)
GeminiLinesTwice(lines, acc) ==
    IF lines = <<>> THEN acc
    ELSE LET line == Head(lines)
             a == Examine(acc)
             data == Trim(SliceFrom(line, 6))
             parsed == JsonParse(data)
             parts == parsed.value.parts
             textChunk == IF parts = <<>> THEN <<>> ELSE Last(parts)
         IN  IF ~StartsWith(line, DataPrefix) THEN GeminiLinesTwice(Tail(lines), a)
             ELSE IF data = DoneLiteral THEN [a EXCEPT !.done = TRUE, !.sawDone = TRUE]
             ELSE IF parsed.ok
                  THEN GeminiLinesTwice(Tail(lines),
                           [a EXCEPT !.fullReply = @ \o textChunk,
                                     !.chunks = Append(Append(@, textChunk), textChunk)])
             ELSE GeminiLinesTwice(Tail(lines), a)

\* for (const line of lines) { ... } of streamGeminiRequest
RECURSIVE GeminiLines(_, _)
GeminiLines(lines, acc) ==
    IF lines = <<>> THEN acc
    ELSE LET line == Head(lines)
             a == Examine(acc)
             data == Trim(SliceFrom(line, 6))
             parsed == JsonParse(data)
             parts == parsed.value.parts
             textChunk == IF parts = <<>> THEN <<>> ELSE Last(parts)
         IN  IF ~StartsWith(line, DataPrefix) THEN GeminiLines(Tail(lines), a)
             ELSE IF data = DoneLiteral THEN [a EXCEPT !.done = TRUE, !.sawDone = TRUE]
             ELSE IF parsed.ok
                  THEN GeminiLines(Tail(lines),
                           [a EXCEPT !.fullReply = @ \o textChunk,
                                     !.chunks = Append(@, textChunk)])
             ELSE GeminiLines(Tail(lines), a)

\* One pass of the while loop of streamGeminiRequest.
GeminiPass(buffer, value, doneReading, acc) ==
    LET lines == SplitLines(buffer \o value)
        a == GeminiLines(Front(lines), [acc EXCEPT !.done = doneReading])
    IN  [buffer |-> Last(lines), acc |-> a]

\* s.split('\n')
RECURSIVE SplitNewline(_)
SplitNewline(s) ==
    LET i == IndexOf(s, <<"\n">>)
    IN  IF i = 0 THEN <<s>>
        ELSE <<SubSeq(s, 1, i - 1)>> \o SplitNewline(SubSeq(s, i + 1, Len(s)))

\* s.lastIndexOf(p) as a 1-based position, 0 when p does not occur
LastIndexOf(s, p) ==
    LET cand == {i \in 1..(Len(s) - Len(p) + 1) : SubSeq(s, i, i + Len(p) - 1) = p}
    IN  IF cand = {} THEN 0 ELSE CHOOSE i \in cand : \A j \in cand : j <= i

\* for (const line of lines) { ... } of the openai branch of
\* handleStreamingResponse: [DONE] leaves the for loop only
RECURSIVE HsrOpenAILines(_, _)
HsrOpenAILines(lines, acc) ==
    IF lines = <<>> THEN acc
    ELSE LET line == Head(lines)
             a == Examine(acc)
             dataString == Trim(SliceFrom(line, 6))
             parsed == JsonParse(dataString)
             delta == parsed.value.deltaContent
         IN  IF ~StartsWith(line, DataPrefix) THEN HsrOpenAILines(Tail(lines), a)
             ELSE IF dataString = DoneLiteral THEN [a EXCEPT !.sawDone = TRUE]
             ELSE IF parsed.ok /\ delta # <<>>
                  THEN HsrOpenAILines(Tail(lines),
                           [a EXCEPT !.fullReply = @ \o delta, !.chunks = Append(@, delta)])
             ELSE HsrOpenAILines(Tail(lines), a)

\* One pass of the while loop of handleStreamingResponse, modelType 'openai':
\* the loop is left before anything is processed when the read reports the end.
HsrOpenAIPass(buffer, value, doneReading, acc) ==
    IF doneReading THEN [buffer |-> buffer, acc |-> [acc EXCEPT !.done = TRUE]]
    ELSE LET lines == SplitNewline(buffer \o value)
         IN  [buffer |-> Last(lines), acc |-> HsrOpenAILines(Front(lines), acc)]

\* for (const line of lines) { ... } of the gemini branch of
\* handleStreamingResponse: a line JSON.parse rejects is put in front of buffer
RECURSIVE HsrGeminiLines(_, _, _)
HsrGeminiLines(lines, buffer, acc) ==
    IF lines = <<>> THEN [buffer |-> buffer, acc |-> acc]
    ELSE LET line == Head(lines)
             a == Examine(acc)
             parsed == JsonParse(line)
             parts == parsed.value.parts
             delta == IF parts = <<>> THEN <<>> ELSE parts[1]
         IN  IF Trim(line) = <<>> THEN HsrGeminiLines(Tail(lines), buffer, a)
             ELSE IF parsed.ok
                  THEN IF delta # <<>>
                       THEN HsrGeminiLines(Tail(lines), buffer,
                                [a EXCEPT !.fullReply = @ \o delta, !.chunks = Append(@, delta)])
                       ELSE HsrGeminiLines(Tail(lines), buffer, a)
             ELSE HsrGeminiLines(Tail(lines),
                      line \o (IF buffer # <<>> THEN <<"\n">> \o buffer ELSE <<>>), a)

\* One pass of the while loop of handleStreamingResponse, modelType 'gemini'.
HsrGeminiPass(buffer, value, doneReading, acc) ==
    IF doneReading THEN [buffer |-> buffer, acc |-> [acc EXCEPT !.done = TRUE]]
    ELSE LET lines == SplitNewline(buffer \o value)
         IN  HsrGeminiLines(Front(lines), Last(lines), acc)

\* One pass of the while loop of ChatController.handleOpenAIMessage /
\* handleGeminiMessage: responseText += chunk
ChatPass(buffer, value, doneReading, acc) ==
    IF doneReading THEN [buffer |-> buffer, acc |-> [acc EXCEPT !.done = TRUE]]
    ELSE [buffer |-> buffer, acc |-> [acc EXCEPT !.fullReply = @ \o value]]

\* One pass of the read loop of: streamOpenAIRequest ("openai"),
\* streamGeminiRequest ("gemini"), handleStreamingResponse ("hsr_openai",
\* "hsr_gemini") and the ChatController handlers ("chat").
StreamPass(provider, buffer, value, doneReading, acc) ==
    IF provider = "openai" THEN OpenAIPass(buffer, value, doneReading, acc)
    ELSE IF provider = "hsr_openai" THEN HsrOpenAIPass(buffer, value, doneReading, acc)
    ELSE IF provider = "hsr_gemini" THEN HsrGeminiPass(buffer, value, doneReading, acc)
    ELSE IF provider = "chat" THEN ChatPass(buffer, value, doneReading, acc)
    ELSE GeminiPass(buffer, value, doneReading, acc)

\* what handleStreamingResponse does with fullResponse between its loop and its
\* return: with settings.cot and two fences it keeps the text after the last
\* fence
HsrFinish(fullResponse, cot) ==
    LET cotStartIndex == IndexOf(fullResponse, cotStartMarker)
        cotEndIndex == LastIndexOf(fullResponse, cotEndMarker)
    IN  IF cot /\ cotStartIndex # 0 /\ cotEndIndex # 0 /\ cotEndIndex > cotStartIndex
        THEN Trim(SubSeq(fullResponse, cotEndIndex + Len(cotEndMarker), Len(fullResponse)))
        ELSE fullResponse

\* the value of the cumulative text when the function returns
StreamFinish(provider, cot, acc) ==
    IF provider \in {"hsr_openai", "hsr_gemini"}
    THEN [acc EXCEPT !.fullReply = HsrFinish(@, cot)]
    ELSE acc

(***************************************************************************)
(* Bounds and input sets.                                                  *)
(***************************************************************************)
\* number of sendMessage calls with a non-empty input that start while no
\* other call is in flight
MaxExchanges == 1

\* number of sendMessage calls that can be suspended at the same time: each
\* call has its own locals and its own AI message element
MaxCalls == 2

Calls == 1..MaxCalls

\* texts typed into the message box
UserInputs == {<<" ">>, <<"h", "i">>}

\* passwords typed into the login box
Passwords == {<<>>, <<"p", "w">>}

\* values of settingsController.getSettings().selectedModel
ModelIds == {ModelGptMini, ModelGeminiFlash, ModelGptOther, ModelOther}

\* Response bodies, each as the sequence of chunks in which the reader delivers
\* it (a non-streaming response carries the concatenation as its text).
ResponseBodies ==
    { << <<"o", "k">> >>,
      << ThinkingMarker \o <<"a">> >>,
      << ThinkingMarker, <<"a", "\n">> \o AnswerMarker \o <<"b">> >>,
      << AnswerMarker \o ThinkingMarker \o <<"a">> >>,
      << <<"x", " ">>, ThinkingMarker \o <<"a">> >> }

\* total_tokens / totalTokenCount values a usage response carries
UsageCounts == {3}

\* number of frames of a streamed response
MaxFrames == 2

\* largest number of characters one read of the stream functions delivers,
\* unless it delivers all that is left
MaxRead == 2

\* What can follow a data line: a blank line (with either line ending), a
\* single line ending, or nothing.
BlankLine == <<"\n", "\n">>

BlankLineCRLF == <<"\r", "\n", "\r", "\n">>

NewLine == <<"\n">>

NewLineCRLF == <<"\r", "\n">>

Frame(kind, term) == [kind |-> kind, term |-> term]

\* frames of a streamed response: a data line that carries a text delta ("A",
\* "B"), a truncated JSON document ("Malformed") or [DONE], and what follows it
FrameSpecs ==
    { Frame("A", BlankLine), Frame("A", BlankLineCRLF), Frame("A", NewLine), Frame("A", <<>>),
      Frame("B", BlankLine), Frame("Malformed", BlankLine),
      Frame("Done", BlankLine), Frame("Done", NewLine) }

RECURSIVE Flatten(_)
Flatten(chunks) == IF chunks = <<>> THEN <<>> ELSE Head(chunks) \o Flatten(Tail(chunks))

\* number of chunks in which a response text arrives
MaxPieces == 4

\* the chunks a response text is made of
TextPieces == {ThinkingMarker, AnswerMarker, <<" ", "a", " ">>, <<"b">>}

\* values of this.lastAnswerContent left by earlier exchanges
LastAnswers == {<<>>, <<"z">>}

\* number of lines of a response of the read loops
MaxLines == 2

\* lines of a response of the read loops: a document with one part, with two
\* parts, with a part without text, with a code fence as its text, a
\* truncated document, and [DONE]
LineSpecs ==
    { Frame("A", NewLine), Frame("A", NewLineCRLF), Frame("TwoParts", NewLine),
      Frame("NoText", NewLine),
      Frame("Fence", NewLine), Frame("Malformed", NewLine), Frame("Done", NewLine) }

\* number of messages of a history a request is built from
MaxHistory == 3

\* the messages chatHistory holds: sendMessage pushes role 'user', the handlers
\* push role 'ai'
HistoryMessages == [role : {"user", "ai"}, content : {<<"h", "i">>, <<"o", "k">>}]

\* values of getSelectedSystemPromptContent(): null (<<>>) or the content of the
\* selected prompt
PromptValues == {<<>>, <<"s">>}

\* values of #apiKey when sendRequest is called: none, or a decrypted key
RequestKeys == {<<>>, <<"k">>}

\* model ids sendRequest is called with: ids of the table, ids it does not
\* hold, and ids that name properties every object inherits
RequestModels ==
    {ModelGptMini, ModelGeminiFlash, ModelGptOther, ModelOther,
     <<"t", "o", "S", "t", "r", "i", "n", "g">>,
     <<"_", "_", "p", "r", "o", "t", "o", "_", "_">>}

\* texts typed into the password box of the login dialog
UnlockPasswords ==
    {<<>>, <<" ", " ">>, <<"p", "w">>, <<"p", "a">>, <<"x">>, <<" ", "x", " ">>, <<"q">>}

\* what localStorage.getItem can return for a preference written by
\* _saveSettings: nothing, or the text of a boolean
StoredFlags == {"null", "true", "false"}

\* what it can return for selectedModel
StoredModels == {<<>>, ModelGptMini, ModelGeminiFlash}

\* number of characters of a text to encrypt
MaxText == 3

\* number of characters of an encryption key
MaxKey == 2

\* the characters of the texts and of the keys
TextChars == {" ", "a", "~", "0"}

KeyChars == {"a", "~", " "}

SettingsValues == [streaming : BOOLEAN, enableCoT : BOOLEAN, showThinking : BOOLEAN]

(***************************************************************************)
(* State.                                                                  *)
(***************************************************************************)
VARIABLES
    heap,                 \* message objects, by reference (index)
    chatHistory,          \* ChatController.chatHistory: references into heap
    totalTokens,          \* ChatController.totalTokens
    settings,             \* ChatController.settings
    isThinking,           \* ChatController.isThinking
    lastThinkingContent,  \* ChatController.lastThinkingContent
    lastAnswerContent,    \* ChatController.lastAnswerContent
    apiKey,               \* ApiService.#apiKey (code units)
    inputDisabled,        \* disabled state of #message-input and #send-button
    display,              \* per call: content last written to its AI message element
    pc,                   \* per call: where the sendMessage call is suspended ("idle":
                          \* no call holds this place)
    hModel,               \* per call: model of the call
    hHandler,             \* per call: "openai" (handleOpenAIMessage) or "gemini"
    hStream,              \* per call: the branch of the handler taken (settings.streaming)
    wire,                 \* per call: chunks of the body the reader has not delivered yet
    responseText,         \* per call: local responseText of the streaming loop
    nSent,                \* sendMessage calls started so far
    ex,                   \* per call: observations of its exchange (in progress or ended)
    sPc,                  \* stream function: "off", "read" (in its loop), "returned"
    sProvider,            \* "openai" (streamOpenAIRequest) or "gemini" (streamGeminiRequest)
    sFrames,              \* the frames the response was built from
    sResponse,            \* the whole response body
    sWire,                \* the part of the body not read yet
    sBuffer,              \* eventBuffer / buffer
    sLoop,                \* fullReply, the deltas given to onChunk, done, line counters
    sReads,               \* how many reads of the call delivered data, counted up to 2
    sCot,                 \* settings.cot of the ApiService of handleStreamingResponse
    cPc,                  \* CoT display path: "off", "start", "stream", "stored", "shown"
    cRest,                \* chunks of the response text not delivered yet
    cText,                \* responseText (streaming) / response (non-streaming)
    cShowThinking,        \* settings.showThinking (settings.enableCoT is true)
    cLastAnswer,          \* this.lastAnswerContent when the exchange starts
    cView,                \* the processed object last given to formatResponseForDisplay
    cShown,               \* the string last given to updateMessageContent
    cFinal,               \* the processed object the history entry is taken from
    pPc,                  \* request construction: "off", "start", "sent", "threw"
    pHistory,             \* the chatHistory the request is built from
    pPrompt,              \* getSelectedSystemPromptContent(): <<>> for null
    pRequest,             \* the body of the request handed to fetch
    pTarget,              \* the function that sent it, its stream flag, the URL's action
    pCall,                \* the key and the model id sendRequest ran with, and the
                          \* message of the Error it threw ("" when it threw none)
    uPc,                  \* the login dialog: "off", "open", "closed"
    uKey,                 \* ApiService.#apiKey
    uCookie,              \* the value of the chat_pwd cookie, <<>> when there is none
    uReload,              \* location.reload() was called, the page is not loaded again yet
    uAccepted,            \* the passwords init accepted, each with the key it stored
    uRejected,            \* the passwords refused: by handleLogin's own check of
                          \* the text, or by an init that returned false
    gPc,                  \* SettingsController: "off", "constructed", "loaded", "saved"
    localStorage,         \* the stored preferences: "null" / <<>> for an absent item
    ctlSettings,          \* SettingsController._settings
    kPc,                  \* cipher round trip: "off", "start", "encrypted", "decrypted"
    kText,                \* the text given to encrypt
    kKey,                 \* the key given to encrypt and decrypt
    kCipher,              \* the value of encrypt
    kPlain                \* the value of decrypt, as character codes

chatVars ==
    <<heap, chatHistory, totalTokens, settings, isThinking, lastThinkingContent,
      lastAnswerContent, apiKey, inputDisabled, display, pc, hModel, hHandler, hStream,
      wire, responseText, nSent, ex>>

streamVars == <<sPc, sProvider, sFrames, sResponse, sWire, sBuffer, sLoop, sReads, sCot>>

splitVars == <<cPc, cRest, cText, cShowThinking, cLastAnswer, cView, cShown, cFinal>>

payloadVars == <<pPc, pHistory, pPrompt, pRequest, pTarget, pCall>>

unlockVars == <<uPc, uKey, uCookie, uReload, uAccepted, uRejected>>

prefVars == <<gPc, localStorage, ctlSettings>>

cryptVars == <<kPc, kText, kKey, kCipher, kPlain>>

vars == <<chatVars, streamVars, splitVars, payloadVars, unlockVars, prefVars, cryptVars>>

\* the messages of the history as values
HistoryView == [i \in 1..Len(chatHistory) |-> heap[chatHistory[i]]]

Text(t) == [kind |-> "text", text |-> t]

\* `Error: ${error.message}`
ErrorText(message) == [kind |-> "error", text |-> <<message>>]

(***************************************************************************)
(* ApiService.                                                             *)
(***************************************************************************)
\* _prepareMessagesForCoT on the heap h: finalMessages is a new array that holds
\* the same message objects, so the assignment to lastMessage.content writes
\* the object the caller's array holds too.
prepareMessagesForCoT(h, messages, useCoT, showThinking) ==
    IF ~useCoT THEN [heap |-> h, finalMessages |-> messages]
    ELSE
        LET finalMessages == messages
            n == Len(finalMessages)
            cotInstruction == IF showThinking THEN CoTInstructionShow ELSE CoTInstructionHide
        IN  IF n > 0 /\ h[finalMessages[n]].role = "user" THEN
                [heap |-> [h EXCEPT ![finalMessages[n]].content =
                                        @ \o TwoNewlines \o cotInstruction],
                 finalMessages |-> finalMessages]
            ELSE [heap |-> h, finalMessages |-> finalMessages]

\* sendRequest up to its first await: the check of the key, the lookup of the
\* model id, the CoT preparation, the choice of the payload by provider, and
\* the fetch call.  threw is the message of the Error thrown, "" when none.
\* An id that names an inherited property passes the lookup and fails on its
\* provider, after the CoT preparation has run.
sendRequestStart(key, h, messages, model, useCoT, showThinking) ==
    IF key = <<>> THEN
        [threw |-> "API key is missing or invalid.", kind |-> "missing_key",
         heap |-> h, fetched |-> FALSE]
    ELSE IF ~endpointDetails(model).truthy THEN
        [threw |-> "Unsupported model", kind |-> "unsupported_model",
         heap |-> h, fetched |-> FALSE]
    ELSE IF endpointDetails(model).provider \in {"openai", "google"} THEN
        [threw |-> "", kind |-> "pending",
         heap |-> prepareMessagesForCoT(h, messages, useCoT, showThinking).heap,
         fetched |-> TRUE]
    ELSE
        [threw |-> "Unsupported provider for model", kind |-> "unsupported_provider",
         heap |-> prepareMessagesForCoT(h, messages, useCoT, showThinking).heap,
         fetched |-> FALSE]

\* getTokenUsage with a catch block that returns -1
getTokenUsageMinusOne(failed, count) == IF failed THEN 0 - 1 ELSE count

\* getTokenUsage: the count of the usage response, 0 when the request failed
\* (the catch block) or the response carries no count.
getTokenUsage(failed, count) == IF failed THEN 0 ELSE count

\* ApiService.init(password), called by the login dialog, which stays open
\* until a call succeeds.
ApiInit(password) ==
    /\ UNCHANGED <<streamVars, splitVars, payloadVars, unlockVars, prefVars, cryptVars>>
    /\ apiKey = <<>>
    /\ password # <<>>
    /\ apiKey' = decrypt(ENCRYPTED_OPENAI_KEY, password)
    /\ UNCHANGED <<heap, chatHistory, totalTokens, settings, isThinking,
                   lastThinkingContent, lastAnswerContent, inputDisabled, display, pc,
                   hModel, hHandler, hStream, wire, responseText, nSent, ex>>

(***************************************************************************)
(* ChatController.                                                         *)
(***************************************************************************)
\* the observations of an exchange that has not started
NoExchange ==
    [before |-> <<>>, user |-> <<>>, cot |-> FALSE, cleared |-> FALSE, aborted |-> FALSE,
     unread |-> 0, reads |-> 0, deltas |-> 0, fetches |-> 0, key |-> <<>>, model |-> <<>>,
     outcome |-> "none", appended |-> <<>>, appendedCoT |-> FALSE,
     usageFailed |-> FALSE, tokensBefore |-> 0, usageDone |-> FALSE, refused |-> FALSE]

\* the calls of sendMessage between the push of the user message and the
\* finally block
InFlight == {c \in Calls : pc[c] # "idle"}

\* a setLoading that leaves the input and the send button enabled
setLoadingKeepsEnabled(isLoading) == inputDisabled' = FALSE

\* UiController.setLoading(isLoading): setInputDisabled(isLoading) on
\* #message-input and #send-button
setLoading(isLoading) == inputDisabled' = isLoading

\* a finally block that leaves the input and the send button disabled
FinallyKeepsLoading(c) ==
    /\ isThinking' = FALSE
    /\ inputDisabled' = TRUE
    /\ pc' = [pc EXCEPT ![c] = "idle"]

\* the finally block of sendMessage
Finally(c) ==
    /\ isThinking' = FALSE
    /\ setLoading(FALSE)
    /\ pc' = [pc EXCEPT ![c] = "idle"]

\* the locals of a handler that has returned or thrown
NoLocals(c) ==
    /\ hModel' = [hModel EXCEPT ![c] = <<>>]
    /\ hHandler' = [hHandler EXCEPT ![c] = "none"]
    /\ hStream' = [hStream EXCEPT ![c] = FALSE]
    /\ wire' = [wire EXCEPT ![c] = <<>>]
    /\ responseText' = [responseText EXCEPT ![c] = <<>>]

\* the handler goes on to its getTokenUsage call
CallGetTokenUsage(c) ==
    /\ pc' = [pc EXCEPT ![c] = "usage"]
    /\ isThinking' = TRUE
    /\ setLoading(TRUE)

\* An Error leaves the request part of the handler.  handleOpenAIMessage lets
\* it reach the catch block of sendMessage; handleGeminiMessage catches it
\* itself and goes on to getTokenUsage.
HandlerThrows(c, handler, model, message) ==
    /\ display' = [display EXCEPT ![c] = ErrorText(message)]
    /\ IF handler = "openai"
       THEN Finally(c) /\ NoLocals(c)
       ELSE /\ CallGetTokenUsage(c)
            /\ hModel' = [hModel EXCEPT ![c] = model]
            /\ hHandler' = [hHandler EXCEPT ![c] = handler]
            /\ hStream' = [hStream EXCEPT ![c] = FALSE]
            /\ wire' = [wire EXCEPT ![c] = <<>>]
            /\ responseText' = [responseText EXCEPT ![c] = <<>>]

\* chatHistory.push({ role: 'ai', content }) on heap h
PushAi(h, content) ==
    /\ heap' = Append(h, [role |-> "ai", content |-> content])
    /\ chatHistory' = Append(chatHistory, Len(h) + 1)

\* clearChat(): the old message objects become unreachable
ClearChat ==
    /\ UNCHANGED <<streamVars, splitVars, payloadVars, unlockVars, prefVars, cryptVars>>
    /\ chatHistory' = <<>>
    /\ totalTokens' = 0
    /\ heap' = <<>>
    /\ ex' = [c \in Calls |-> IF ex[c].outcome = "none" THEN ex[c]
                                ELSE [ex[c] EXCEPT !.cleared = TRUE]]
    /\ UNCHANGED <<settings, isThinking, lastThinkingContent, lastAnswerContent, apiKey,
                   inputDisabled, display, pc, hModel, hHandler, hStream, wire,
                   responseText, nSent>>

\* updateSettings(newSettings), called by handleSettingsChange when the user
\* saves the settings dialog, which setLoading does not disable: the fields of
\* newSettings are merged over this.settings at any moment, also while an
\* exchange waits for the network.  (Fields the chat session does not read,
\* such as selectedModel, are merged as well and are not kept here.)
UpdateSettings(newSettings) ==
    /\ UNCHANGED <<streamVars, splitVars, payloadVars, unlockVars, prefVars, cryptVars>>
    /\ newSettings # settings
    /\ settings' = [f \in DOMAIN settings |->
                        IF f \in DOMAIN newSettings THEN newSettings[f] ELSE settings[f]]
    /\ UNCHANGED <<heap, chatHistory, totalTokens, isThinking, lastThinkingContent,
                   lastAnswerContent, apiKey, inputDisabled, display, pc, hModel,
                   hHandler, hStream, wire, responseText, nSent, ex>>

\* The dispatch of sendMessage on the model id.
Dispatch(model) ==
    IF StartsWith(model, GptPrefix) THEN "openai"
    ELSE IF StartsWith(model, GeminiPrefix) \/ StartsWith(model, GemmaPrefix) THEN "gemini"
    ELSE "none"

\* sendMessage() up to the first await that waits for the network: the input
\* check, the push of the user message, the dispatch, and sendRequest up to its
\* fetch call.  It is called by the click handler of #send-button and the
\* Enter handler of #message-input, which run only while the controls are
\* enabled.  The call takes the first free place c.
SendMessage(input, model) ==
    LET c == CHOOSE d \in Calls : pc[d] = "idle" /\ \A e \in Calls : pc[e] = "idle" => d <= e
        userMessage == Trim(input)
        h1 == Append(heap, [role |-> "user", content |-> userMessage])
        hist1 == Append(chatHistory, Len(h1))
        handler == Dispatch(model)
        sr == sendRequestStart(apiKey, h1, hist1, model, settings.enableCoT,
                               settings.showThinking)
        ex1 == [NoExchange EXCEPT !.before = HistoryView, !.user = userMessage,
                                  !.cot = settings.enableCoT, !.key = apiKey,
                                  !.model = model]
    IN  /\ UNCHANGED <<streamVars, splitVars, payloadVars, unlockVars, prefVars, cryptVars>>
        /\ ~inputDisabled
        /\ Cardinality(InFlight) < MaxCalls
        /\ nSent < MaxExchanges + (IF InFlight = {} THEN 0 ELSE MaxCalls - 1)
        /\ Trim(userMessage) # <<>>
        /\ nSent' = nSent + 1
        /\ chatHistory' = hist1
        /\ UNCHANGED <<totalTokens, settings, lastThinkingContent, lastAnswerContent, apiKey>>
        /\ IF handler = "none" THEN
                /\ heap' = h1
                /\ display' = [display EXCEPT ![c] =
                                   [kind |-> "notice", text |-> <<"Unsupported model selected.">>]]
                /\ ex' = [ex EXCEPT ![c] = [ex1 EXCEPT !.outcome = "unsupported_prefix"]]
                /\ Finally(c)
                /\ NoLocals(c)
           ELSE IF sr.threw # "" THEN
                /\ heap' = sr.heap
                /\ ex' = [ex EXCEPT ![c] = [ex1 EXCEPT !.outcome = sr.kind]]
                /\ HandlerThrows(c, handler, model, sr.threw)
           ELSE
                /\ heap' = sr.heap
                /\ display' = [display EXCEPT ![c] =
                                   Text(IF settings.streaming THEN <<>> ELSE ThinkingPlaceholder)]
                /\ ex' = [ex EXCEPT ![c] = [ex1 EXCEPT !.outcome = "pending", !.fetches = 1]]
                /\ isThinking' = TRUE
                /\ setLoading(TRUE)
                /\ pc' = [pc EXCEPT ![c] = "fetch"]
                /\ hModel' = [hModel EXCEPT ![c] = model]
                /\ hHandler' = [hHandler EXCEPT ![c] = handler]
                /\ hStream' = [hStream EXCEPT ![c] = settings.streaming]
                /\ wire' = [wire EXCEPT ![c] = <<>>]
                /\ responseText' = [responseText EXCEPT ![c] = <<>>]

\* The user clicks #send-button or presses Enter in #message-input while
\* setInputDisabled(true) holds: a disabled control receives neither the click
\* nor the key, so no handler runs and sendMessage is not called.  The calls
\* in flight note the attempt.
SendRefused ==
    /\ UNCHANGED <<streamVars, splitVars, payloadVars, unlockVars, prefVars, cryptVars>>
    /\ inputDisabled
    /\ \E c \in InFlight : ~ex[c].refused
    /\ ex' = [c \in Calls |-> IF c \in InFlight THEN [ex[c] EXCEPT !.refused = TRUE]
                                ELSE ex[c]]
    /\ UNCHANGED <<heap, chatHistory, totalTokens, settings, isThinking,
                   lastThinkingContent, lastAnswerContent, apiKey, inputDisabled, display,
                   pc, hModel, hHandler, hStream, wire, responseText, nSent>>

\* The fetch of sendRequest settles and the code runs to its next wait.
\* result: "ok" (2xx), "upstream_error" (non-2xx), "network_error" (fetch
\* rejects), "aborted" (fetch rejects with AbortError, sendRequest returns null
\* and the handler fails on the null with a TypeError).  With a streaming 2xx
\* response the reader is returned and the handler issues its first read, whose
\* chunks are body; with a non-streaming 2xx response sendRequest waits for
\* response.json(), with a non-2xx response for response.text().
FetchResolve(c, result, body) ==
    /\ UNCHANGED <<streamVars, splitVars, payloadVars, unlockVars, prefVars, cryptVars>>
    /\ pc[c] = "fetch"
    /\ UNCHANGED <<totalTokens, settings, apiKey, nSent>>
    /\ IF result = "ok" /\ hStream[c] THEN
            /\ pc' = [pc EXCEPT ![c] = "read"]
            /\ wire' = [wire EXCEPT ![c] = body]
            /\ responseText' = [responseText EXCEPT ![c] = <<>>]
            /\ ex' = [ex EXCEPT ![c].reads = 1]
            /\ UNCHANGED <<heap, chatHistory, isThinking, inputDisabled, display,
                           lastThinkingContent, lastAnswerContent, hModel, hHandler, hStream>>
       ELSE IF result \in {"ok", "upstream_error"} THEN
            /\ pc' = [pc EXCEPT ![c] = IF result = "ok" THEN "body" ELSE "errorBody"]
            /\ UNCHANGED <<heap, chatHistory, isThinking, inputDisabled, display,
                           lastThinkingContent, lastAnswerContent, hModel, hHandler, hStream,
                           wire, responseText, ex>>
       ELSE
            /\ ex' = [ex EXCEPT ![c].outcome = IF result = "aborted" THEN "fetch_aborted" ELSE result]
            /\ HandlerThrows(c, hHandler[c], hModel[c],
                   CASE result = "network_error" -> "Failed to fetch"
                     [] OTHER -> "TypeError: null")
            /\ UNCHANGED <<heap, chatHistory, lastThinkingContent, lastAnswerContent>>

\* The body sendRequest waits for has arrived.  response.json() of a 2xx
\* response: sendRequest returns the text of the document, the handler shows
\* it, pushes it and goes on to getTokenUsage.  response.text() of a non-2xx
\* response: sendRequest throws 'API request failed: ...'.
BodyResolve(c, body) ==
    /\ UNCHANGED <<streamVars, splitVars, payloadVars, unlockVars, prefVars, cryptVars>>
    /\ pc[c] \in {"body", "errorBody"}
    /\ UNCHANGED <<totalTokens, settings, apiKey, nSent>>
    /\ IF pc[c] = "body" THEN
            LET response == Flatten(body)
                pr == processCoTResponse(response, lastThinkingContent, lastAnswerContent)
                content == IF settings.enableCoT THEN pr.processed.answer ELSE response
            IN  /\ display' = [display EXCEPT ![c] =
                                   Text(IF settings.enableCoT
                                        THEN formatResponseForDisplay(pr.processed, settings)
                                        ELSE response)]
                /\ lastThinkingContent' =
                       IF settings.enableCoT THEN pr.lastThinkingContent ELSE lastThinkingContent
                /\ lastAnswerContent' =
                       IF settings.enableCoT THEN pr.lastAnswerContent ELSE lastAnswerContent
                /\ PushAi(heap, content)
                /\ ex' = [ex EXCEPT ![c].outcome = "completed", ![c].appended = <<content>>,
                                    ![c].appendedCoT = ex[c].cot /\ settings.enableCoT]
                /\ CallGetTokenUsage(c)
                /\ UNCHANGED <<wire, responseText, hModel, hHandler, hStream>>
       ELSE
            /\ ex' = [ex EXCEPT ![c].outcome = "upstream_error"]
            /\ HandlerThrows(c, hHandler[c], hModel[c], "API request failed")
            /\ UNCHANGED <<heap, chatHistory, lastThinkingContent, lastAnswerContent>>

\* The body sendRequest waits for fails to arrive: response.json() or
\* response.text() rejects.  An AbortError is caught by sendRequest, which
\* returns null, and the handler fails on the null with a TypeError; any other
\* error leaves sendRequest.
BodyError(c, aborted) ==
    /\ UNCHANGED <<streamVars, splitVars, payloadVars, unlockVars, prefVars, cryptVars>>
    /\ pc[c] \in {"body", "errorBody"}
    /\ ex' = [ex EXCEPT ![c].outcome = IF aborted THEN "fetch_aborted" ELSE "network_error"]
    /\ HandlerThrows(c, hHandler[c], hModel[c],
                     IF aborted THEN "TypeError: null" ELSE "Failed to fetch")
    /\ UNCHANGED <<heap, chatHistory, totalTokens, settings, lastThinkingContent,
                   lastAnswerContent, apiKey, nSent>>

\* The end of the streaming loop: the complete response is processed for the
\* history, pushed, and the handler goes on to getTokenUsage.
Finalize(c, abortedNow) ==
    LET pr == processCoTResponse(responseText[c], lastThinkingContent, lastAnswerContent)
        content == IF settings.enableCoT THEN pr.processed.answer ELSE responseText[c]
    IN  /\ lastThinkingContent' =
               IF settings.enableCoT THEN pr.lastThinkingContent ELSE lastThinkingContent
        /\ lastAnswerContent' =
               IF settings.enableCoT THEN pr.lastAnswerContent ELSE lastAnswerContent
        /\ PushAi(heap, content)
        /\ ex' = [ex EXCEPT ![c].outcome = IF abortedNow THEN "read_aborted" ELSE "completed",
                            ![c].aborted = abortedNow,
                            ![c].unread = Len(wire[c]),
                            ![c].appended = <<content>>,
                            ![c].appendedCoT = ex[c].cot /\ settings.enableCoT]
        /\ CallGetTokenUsage(c)
        /\ wire' = [wire EXCEPT ![c] = <<>>]
        /\ responseText' = [responseText EXCEPT ![c] = <<>>]
        /\ UNCHANGED <<totalTokens, settings, apiKey, display, hModel, hHandler, hStream,
                       nSent>>

\* One pass of the streaming loop: reader.read() delivers the next chunk of
\* the body, the text is re-rendered, and the next read is issued.
ReadChunk(c) ==
    /\ UNCHANGED <<streamVars, splitVars, payloadVars, unlockVars, prefVars, cryptVars>>
    /\ pc[c] = "read"
    /\ wire[c] # <<>>
    /\ LET chunk == Head(wire[c])
           text == responseText[c] \o chunk
       IN  /\ responseText' = [responseText EXCEPT ![c] = text]
           /\ wire' = [wire EXCEPT ![c] = Tail(wire[c])]
           /\ display' = [display EXCEPT ![c] =
                              Text(IF settings.enableCoT
                                   THEN formatResponseForDisplay(processPartialCoTResponse(text),
                                                                 settings)
                                   ELSE text)]
    /\ ex' = [ex EXCEPT ![c].reads = @ + 1, ![c].deltas = @ + 1]
    /\ UNCHANGED <<heap, chatHistory, totalTokens, settings, isThinking,
                   lastThinkingContent, lastAnswerContent, apiKey, inputDisabled, pc,
                   hModel, hHandler, hStream, nSent>>

\* reader.read() reports the end of the body.
ReadDone(c) ==
    /\ UNCHANGED <<streamVars, splitVars, payloadVars, unlockVars, prefVars, cryptVars>>
    /\ pc[c] = "read"
    /\ wire[c] = <<>>
    /\ Finalize(c, FALSE)

\* the catch block without done = true: the loop goes on reading
ReadAbortKeepsReading(c) ==
    /\ UNCHANGED <<streamVars, splitVars, payloadVars, unlockVars, prefVars, cryptVars>>
    /\ pc[c] = "read"
    /\ ~ex[c].aborted
    /\ ex' = [ex EXCEPT ![c].aborted = TRUE, ![c].unread = Len(wire[c])]
    /\ UNCHANGED <<heap, chatHistory, totalTokens, settings, isThinking,
                   lastThinkingContent, lastAnswerContent, apiKey, inputDisabled, display,
                   pc, hModel, hHandler, hStream, wire, responseText, nSent>>

\* reader.read() rejects with AbortError: the catch block sets done.
ReadAbort(c) ==
    /\ UNCHANGED <<streamVars, splitVars, payloadVars, unlockVars, prefVars, cryptVars>>
    /\ pc[c] = "read"
    /\ Finalize(c, TRUE)

\* reader.read() rejects with any other error, which is thrown again.
ReadError(c) ==
    /\ UNCHANGED <<streamVars, splitVars, payloadVars, unlockVars, prefVars, cryptVars>>
    /\ pc[c] = "read"
    /\ ex' = [ex EXCEPT ![c].outcome = "read_error"]
    /\ HandlerThrows(c, hHandler[c], hModel[c], "network error")
    /\ UNCHANGED <<heap, chatHistory, totalTokens, settings, lastThinkingContent,
                   lastAnswerContent, apiKey, nSent>>

\* getTokenUsage has returned; the handler adds the count, returns, and the
\* finally block of sendMessage runs.
UsageReturns(c, failed, count) ==
    /\ totalTokens' = totalTokens + getTokenUsage(failed, count)
    /\ ex' = [ex EXCEPT ![c].usageFailed = failed, ![c].tokensBefore = totalTokens,
                        ![c].usageDone = TRUE]
    /\ Finally(c)
    /\ NoLocals(c)
    /\ UNCHANGED <<heap, chatHistory, settings, lastThinkingContent, lastAnswerContent,
                   apiKey, display, nSent>>

\* The fetch of getTokenUsage settles: when it rejects, the catch block
\* returns 0; otherwise getTokenUsage waits for the body (response.json(), or
\* response.text() of a non-2xx response to sendOpenAIRequest).
UsageFetchResolve(c, rejected) ==
    /\ UNCHANGED <<streamVars, splitVars, payloadVars, unlockVars, prefVars, cryptVars>>
    /\ pc[c] = "usage"
    /\ IF rejected THEN UsageReturns(c, TRUE, 0)
       ELSE /\ pc' = [pc EXCEPT ![c] = "usageBody"]
            /\ UNCHANGED <<heap, chatHistory, totalTokens, settings, isThinking,
                           lastThinkingContent, lastAnswerContent, apiKey, inputDisabled,
                           display, hModel, hHandler, hStream, wire, responseText, nSent,
                           ex>>

\* The body of the usage response has arrived (failed: it could not be read,
\* or it is the body of a non-2xx response); getTokenUsage returns.
UsageResolve(c, failed, count) ==
    /\ UNCHANGED <<streamVars, splitVars, payloadVars, unlockVars, prefVars, cryptVars>>
    /\ pc[c] = "usageBody"
    /\ UsageReturns(c, failed, count)

(***************************************************************************)
(* The stream functions of ApiService, run on a response built from frames. *)
(***************************************************************************)
\* the payload of a data line
\* the providers whose responses carry Provider A documents; the ChatController
\* loop is modelled on Provider A responses
OpenAIFormat(provider) == provider \in {"openai", "hsr_openai", "chat"}

Payload(provider, kind) ==
    CASE kind = "Done" -> DoneLiteral
      [] kind = "A" -> IF OpenAIFormat(provider) THEN OpenAIDocA ELSE GeminiDocA
      [] kind = "B" -> IF OpenAIFormat(provider) THEN OpenAIDocB ELSE GeminiDocB
      [] kind = "TwoParts" -> IF OpenAIFormat(provider) THEN OpenAIDocB ELSE GeminiDocTwoParts
      [] kind = "NoText" -> IF OpenAIFormat(provider) THEN OpenAIDocNoContent ELSE GeminiDocNoText
      [] kind = "Fence" -> IF OpenAIFormat(provider) THEN OpenAIDocFence ELSE GeminiDocFence
      [] OTHER -> IF OpenAIFormat(provider) THEN OpenAIDocMalformed ELSE GeminiDocMalformed

\* the response text: data lines, except for the gemini branch of
\* handleStreamingResponse, which parses each line as a document
RECURSIVE Render(_, _)
Render(provider, frames) ==
    IF frames = <<>> THEN <<>>
    ELSE (IF provider = "hsr_gemini" THEN <<>> ELSE DataPrefix)
         \o Payload(provider, Head(frames).kind) \o Head(frames).term
         \o Render(provider, Tail(frames))

\* One pass of the while loop: reader.read() delivers the next k characters.
\* The loop ends, and the function returns fullReply, when the pass set done.
StreamRead(k) ==
    /\ UNCHANGED <<chatVars, splitVars, payloadVars, unlockVars, prefVars, cryptVars>>
    /\ sPc = "read"
    /\ k \in 1..Len(sWire)
    /\ k <= MaxRead \/ k = Len(sWire)
    /\ LET pass == StreamPass(sProvider, sBuffer, SubSeq(sWire, 1, k), FALSE, sLoop)
       IN  /\ sBuffer' = pass.buffer
           /\ sLoop' = pass.acc
           /\ sPc' = IF pass.acc.done THEN "returned" ELSE "read"
    /\ sWire' = SubSeq(sWire, k + 1, Len(sWire))
    /\ sReads' = Min(sReads + 1, 2)
    /\ UNCHANGED <<sProvider, sFrames, sResponse, sCot>>

\* The last pass: reader.read() reports the end of the body.
StreamEnd ==
    /\ UNCHANGED <<chatVars, splitVars, payloadVars, unlockVars, prefVars, cryptVars>>
    /\ sPc = "read"
    /\ sWire = <<>>
    /\ LET pass == StreamPass(sProvider, sBuffer, <<>>, TRUE, sLoop)
       IN  /\ sBuffer' = pass.buffer
           /\ sLoop' = StreamFinish(sProvider, sCot, pass.acc)
    /\ sPc' = "returned"
    /\ UNCHANGED <<sProvider, sFrames, sResponse, sWire, sReads, sCot>>

(***************************************************************************)
(* Specifications.                                                         *)
(***************************************************************************)
ChatInitExceptSettings ==
    /\ heap = <<>>
    /\ chatHistory = <<>>
    /\ totalTokens = 0
    /\ isThinking = FALSE
    /\ lastThinkingContent = <<>>
    /\ lastAnswerContent = <<>>
    /\ apiKey = <<>>
    /\ inputDisabled = FALSE
    /\ display = [c \in Calls |-> Text(<<>>)]
    /\ pc = [c \in Calls |-> "idle"]
    /\ hModel = [c \in Calls |-> <<>>]
    /\ hHandler = [c \in Calls |-> "none"]
    /\ hStream = [c \in Calls |-> FALSE]
    /\ wire = [c \in Calls |-> <<>>]
    /\ responseText = [c \in Calls |-> <<>>]
    /\ nSent = 0
    /\ ex = [c \in Calls |-> NoExchange]

ChatInit ==
    /\ settings = [streaming |-> FALSE, enableCoT |-> FALSE, showThinking |-> TRUE]
    /\ ChatInitExceptSettings

StreamOff ==
    /\ sPc = "off"
    /\ sProvider = "openai"
    /\ sFrames = <<>>
    /\ sResponse = <<>>
    /\ sWire = <<>>
    /\ sBuffer = <<>>
    /\ sLoop = LoopState(<<>>, <<>>, FALSE)
    /\ sReads = 0
    /\ sCot = FALSE

\* the processed object before anything was processed
NoView == Processed(<<>>, <<>>, FALSE, FALSE, "")

SplitOff ==
    /\ cPc = "off"
    /\ cRest = <<>>
    /\ cText = <<>>
    /\ cShowThinking = TRUE
    /\ cLastAnswer = <<>>
    /\ cView = NoView
    /\ cShown = <<>>
    /\ cFinal = NoView

\* the body of a request: the messages / contents array, and the
\* systemInstruction field as a sequence of at most one text
Request(kind, provider, messages, systemInstruction) ==
    [kind |-> kind, provider |-> provider, messages |-> messages,
     systemInstruction |-> systemInstruction]

\* where a request goes: the function that built the URL, its stream flag and
\* the action the URL names
Target(caller, stream, action) == [caller |-> caller, stream |-> stream, action |-> action]

\* no call of sendRequest yet
NoCall == [key |-> <<>>, model |-> <<>>, threw |-> ""]

PayloadOff ==
    /\ pPc = "off"
    /\ pHistory = <<>>
    /\ pPrompt = <<>>
    /\ pRequest = Request("none", "none", <<>>, <<>>)
    /\ pTarget = Target("none", FALSE, "none")
    /\ pCall = NoCall

UnlockOff ==
    /\ uPc = "off"
    /\ uKey = <<>>
    /\ uCookie = <<>>
    /\ uReload = FALSE
    /\ uAccepted = {}
    /\ uRejected = {}

\* the field initializer of SettingsController._settings
DeclaredSettings ==
    [streaming |-> TRUE, enableCoT |-> FALSE, showThinking |-> TRUE,
     selectedModel |-> ModelGptMini]

\* a localStorage without stored preferences: getItem returns null
EmptyStorage ==
    [selectedModel |-> <<>>, useStreaming |-> "null", enableCot |-> "null",
     showThinking |-> "null"]

PrefsOff ==
    /\ gPc = "off"
    /\ localStorage = EmptyStorage
    /\ ctlSettings = DeclaredSettings

CryptOff ==
    /\ kPc = "off"
    /\ kText = <<>>
    /\ kKey = <<>>
    /\ kCipher = <<>>
    /\ kPlain = <<>>

\* The chat session: the state after construction of the controllers.
Init == ChatInit /\ StreamOff /\ SplitOff /\ PayloadOff /\ UnlockOff /\ PrefsOff /\ CryptOff

Next ==
    \/ \E password \in Passwords : ApiInit(password)
    \/ \E s \in SettingsValues : UpdateSettings(s)
    \/ ClearChat
    \/ \E input \in UserInputs, model \in ModelIds : SendMessage(input, model)
    \/ SendRefused
    \/ \E c \in Calls, result \in {"ok", "upstream_error", "network_error", "aborted"},
          body \in ResponseBodies : FetchResolve(c, result, body)
    \/ \E c \in Calls, body \in ResponseBodies : BodyResolve(c, body)
    \/ \E c \in Calls, aborted \in BOOLEAN : BodyError(c, aborted)
    \/ \E c \in Calls : ReadChunk(c)
    \/ \E c \in Calls : ReadDone(c)
    \/ \E c \in Calls : ReadAbort(c)
    \/ \E c \in Calls : ReadError(c)
    \/ \E c \in Calls, rejected \in BOOLEAN : UsageFetchResolve(c, rejected)
    \/ \E c \in Calls, failed \in BOOLEAN, count \in UsageCounts :
            UsageResolve(c, failed, count)

Spec == Init /\ [][Next]_vars

\* A call of streamOpenAIRequest or streamGeminiRequest whose fetch returned a
\* 2xx response with a body built from at most MaxFrames frames.
StreamInit ==
    /\ ChatInit
    /\ SplitOff
    /\ PayloadOff
    /\ UnlockOff /\ PrefsOff /\ CryptOff
    /\ sPc = "read"
    /\ sProvider \in {"openai", "gemini"}
    /\ sFrames \in UNION {[1..n -> FrameSpecs] : n \in 0..MaxFrames}
    /\ sResponse = Render(sProvider, sFrames)
    /\ sWire = sResponse
    /\ sBuffer = <<>>
    /\ sLoop = LoopState(<<>>, <<>>, FALSE)
    /\ sReads = 0
    /\ sCot = FALSE

StreamNext ==
    \/ \E k \in 1..Len(sWire) : StreamRead(k)
    \/ StreamEnd

SpecStream == StreamInit /\ [][StreamNext]_vars

\* The read loops on responses of at most MaxLines newline-terminated lines.
LoopsInit ==
    /\ ChatInit
    /\ SplitOff
    /\ PayloadOff
    /\ UnlockOff /\ PrefsOff /\ CryptOff
    /\ sPc = "read"
    /\ sProvider \in {"gemini", "hsr_openai", "hsr_gemini", "chat"}
    /\ sFrames \in UNION {[1..n -> LineSpecs] : n \in 0..MaxLines}
    /\ sResponse = Render(sProvider, sFrames)
    /\ sWire = sResponse
    /\ sBuffer = <<>>
    /\ sLoop = LoopState(<<>>, <<>>, FALSE)
    /\ sReads = 0
    /\ sCot \in (IF sProvider \in {"hsr_openai", "hsr_gemini"} THEN BOOLEAN ELSE {FALSE})

LoopsNext ==
    \/ \E k \in 1..Len(sWire) : StreamRead(k)
    \/ StreamEnd

SpecLoops == LoopsInit /\ [][LoopsNext]_vars

\* The CoT display path of the handlers, with settings.enableCoT true, on a
\* response text that arrives in at most MaxPieces chunks.
CoTSettings == [streaming |-> FALSE, enableCoT |-> TRUE, showThinking |-> cShowThinking]

\* streaming: a chunk arrives, responseText grows, the partial view is shown
SplitChunk ==
    /\ UNCHANGED <<chatVars, streamVars, payloadVars, unlockVars, prefVars, cryptVars>>
    /\ cPc \in {"start", "stream"}
    /\ cRest # <<>>
    /\ cText' = cText \o Head(cRest)
    /\ cRest' = Tail(cRest)
    /\ cView' = processPartialCoTResponse(cText')
    /\ cShown' = formatResponseForDisplay(cView', CoTSettings)
    /\ cPc' = "stream"
    /\ UNCHANGED <<cShowThinking, cLastAnswer, cFinal>>

\* streaming: the body ended; the complete text is processed for the history
SplitComplete ==
    /\ UNCHANGED <<chatVars, streamVars, payloadVars, unlockVars, prefVars, cryptVars>>
    /\ cPc \in {"start", "stream"}
    /\ cRest = <<>>
    /\ cFinal' = processCoTResponse(cText, <<>>, cLastAnswer).processed
    /\ cPc' = "stored"
    /\ UNCHANGED <<cRest, cText, cShowThinking, cLastAnswer, cView, cShown>>

\* non-streaming: the whole text is processed, shown and stored
SplitWhole ==
    /\ UNCHANGED <<chatVars, streamVars, payloadVars, unlockVars, prefVars, cryptVars>>
    /\ cPc = "start"
    /\ cText' = Flatten(cRest)
    /\ cRest' = <<>>
    /\ cFinal' = processCoTResponse(cText', <<>>, cLastAnswer).processed
    /\ cView' = cFinal'
    /\ cShown' = formatResponseForDisplay(cView', CoTSettings)
    /\ cPc' = "shown"
    /\ UNCHANGED <<cShowThinking, cLastAnswer>>

SplitInit ==
    /\ ChatInit
    /\ StreamOff
    /\ PayloadOff
    /\ UnlockOff /\ PrefsOff /\ CryptOff
    /\ cPc = "start"
    /\ cRest \in UNION {[1..n -> TextPieces] : n \in 0..MaxPieces}
    /\ cText = <<>>
    /\ cShowThinking \in BOOLEAN
    /\ cLastAnswer \in LastAnswers
    /\ cView = NoView
    /\ cShown = <<>>
    /\ cFinal = NoView

SplitNext == SplitChunk \/ SplitComplete \/ SplitWhole

SpecSplit == SplitInit /\ [][SplitNext]_vars

\* formatResponseForDisplay(processed) under this.settings
Format ==
    /\ UNCHANGED <<chatVars, streamVars, payloadVars, unlockVars, prefVars, cryptVars>>
    /\ cPc = "format"
    /\ cShown' = formatResponseForDisplay(cView, settings)
    /\ cPc' = "formatted"
    /\ UNCHANGED <<cRest, cText, cShowThinking, cLastAnswer, cView, cFinal>>

\* The views either splitter makes of a text of at most MaxPieces pieces, under
\* every value of the settings.
FormatInit ==
    /\ settings \in SettingsValues
    /\ ChatInitExceptSettings
    /\ StreamOff
    /\ PayloadOff
    /\ UnlockOff /\ PrefsOff /\ CryptOff
    /\ cPc = "format"
    /\ cRest = <<>>
    /\ cText \in {Flatten(pieces) : pieces \in UNION {[1..n -> TextPieces] : n \in 0..MaxPieces}}
    /\ cShowThinking = settings.showThinking
    /\ cLastAnswer \in LastAnswers
    /\ cView \in {processPartialCoTResponse(cText),
                   processCoTResponse(cText, <<>>, cLastAnswer).processed}
    /\ cShown = <<>>
    /\ cFinal = NoView

FormatNext == Format

SpecFormat == FormatInit /\ [][FormatNext]_vars

\* A network call settles: the fetch of sendRequest, the arrival of a body, a
\* read of a streamed body, or the request of getTokenUsage.
Settle ==
    \/ \E c \in Calls, result \in {"ok", "upstream_error", "network_error", "aborted"},
          body \in ResponseBodies : FetchResolve(c, result, body)
    \/ \E c \in Calls, body \in ResponseBodies : BodyResolve(c, body)
    \/ \E c \in Calls, aborted \in BOOLEAN : BodyError(c, aborted)
    \/ \E c \in Calls : ReadChunk(c)
    \/ \E c \in Calls : ReadDone(c)
    \/ \E c \in Calls : ReadAbort(c)
    \/ \E c \in Calls : ReadError(c)
    \/ \E c \in Calls, rejected \in BOOLEAN : UsageFetchResolve(c, rejected)
    \/ \E c \in Calls, failed \in BOOLEAN, count \in UsageCounts :
            UsageResolve(c, failed, count)

\* The steps that change the program: every step of Next but the refused
\* send, which leaves all of it as it is and only notes the attempt.
NextLive ==
    \/ \E password \in Passwords : ApiInit(password)
    \/ \E s \in SettingsValues : UpdateSettings(s)
    \/ ClearChat
    \/ \E input \in UserInputs, model \in ModelIds : SendMessage(input, model)
    \/ Settle

\* The chat session in which every network call eventually resolves or rejects.
SpecLive == Init /\ [][NextLive]_vars /\ WF_vars(Settle)

\* _prepareOpenAIPayload: the messages array of the payload
prepareOpenAIPayload(messages, systemPromptContent) ==
    LET formattedMessages ==
            [i \in 1..Len(messages) |->
                [role |-> IF messages[i].role = "ai" THEN "assistant" ELSE messages[i].role,
                 content |-> messages[i].content]]
    IN  IF systemPromptContent # <<>>
        THEN <<[role |-> "system", content |-> systemPromptContent]>> \o formattedMessages
        ELSE formattedMessages

\* _prepareGeminiPayload: contents and systemInstruction
prepareGeminiPayload(messages, systemPromptContent) ==
    [contents |-> [i \in 1..Len(messages) |->
                      [role |-> IF messages[i].role = "ai" THEN "model" ELSE "user",
                       content |-> messages[i].content]],
     systemInstruction |-> IF systemPromptContent # <<>> THEN <<systemPromptContent>> ELSE <<>>]

\* sendOpenAIRequest(model, messages), as getTokenUsage calls it: the payload
\* is { model, messages } with the history array itself
sendOpenAIRequestPayload(messages) == messages

\* the contents getTokenUsage builds for Provider B
usageGeminiContents(chatHistoryValue) ==
    [i \in 1..Len(chatHistoryValue) |->
        [role |-> IF chatHistoryValue[i].role = "assistant" THEN "model" ELSE "user",
         content |-> chatHistoryValue[i].content]]

\* API_ENDPOINTS[model].endpoint: the action the URL of the table ends with
EndpointAction ==
    (ModelGptMini :> "chat/completions") @@ (ModelGptNano :> "chat/completions") @@
    (ModelGeminiFlash :> "generateContent") @@ (ModelGemma :> "generateContent")

\* the action of the URL sendRequest fetches: endpointDetails.endpoint, with
\* ?key= appended for Provider B, whatever the stream flag
sendRequestAction(model, stream) == EndpointAction[model]

\* the action of the URL callGemini fetches
callGeminiAction(streaming) ==
    IF streaming THEN "streamGenerateContent" ELSE "generateContent"

\* The value undefined where a text is expected: one element that is no
\* character.  JSON.stringify leaves out a key that holds it.
Undefined == <<"undefined">>

\* `${undefined}` in a template literal
UndefinedText == <<"u", "n", "d", "e", "f", "i", "n", "e", "d">>

\* `${value}` in a template literal
TemplateText(value) == IF value = Undefined THEN UndefinedText ELSE value

\* this.cotPrompt of callOpenAI and callGemini: nothing assigns it
cotPrompt == Undefined

\* the contents callGemini builds; its messages carry the author in sender.
\* With useCoT the text of a last user entry gets "\n\n" and cotPrompt
\* appended, otherwise a user entry with cotPrompt as its text is pushed.
callGeminiContents(messages, useCoT) ==
    LET contents ==
            [i \in 1..Len(messages) |->
                [role |-> IF messages[i].role = "user" THEN "user" ELSE "model",
                 content |-> messages[i].content]]
        n == Len(contents)
    IN  IF ~useCoT THEN contents
        ELSE IF n > 0 /\ contents[n].role = "user"
        THEN [contents EXCEPT ![n].content = @ \o TwoNewlines \o TemplateText(cotPrompt)]
        ELSE Append(contents, [role |-> "user", content |-> cotPrompt])

\* callGemini(messages, model, apiKey, streaming, useCoT, showThinking,
\* systemPromptContent) builds its URL and its body
CallGemini(streaming, useCoT) ==
    /\ UNCHANGED <<chatVars, streamVars, splitVars, unlockVars, prefVars, cryptVars>>
    /\ pPc = "start"
    /\ pRequest' = Request("legacy", "gemini", callGeminiContents(pHistory, useCoT),
                           IF Trim(pPrompt) # <<>> THEN <<pPrompt>> ELSE <<>>)
    /\ pTarget' = Target("callGemini", streaming, callGeminiAction(streaming))
    /\ pPc' = "sent"
    /\ UNCHANGED <<pHistory, pPrompt, pCall>>

\* the messages callOpenAI builds; its messages carry the author in sender.
\* The system prompt is put in front, and with useCoT a user entry with
\* cotPrompt as its content is pushed.
callOpenAIMessages(messages, useCoT, systemPromptContent) ==
    LET apiMessages ==
            [i \in 1..Len(messages) |->
                [role |-> IF messages[i].role = "user" THEN "user" ELSE "assistant",
                 content |-> messages[i].content]]
        withSystem ==
            IF systemPromptContent # <<>> /\ Trim(systemPromptContent) # <<>>
            THEN <<[role |-> "system", content |-> systemPromptContent]>> \o apiMessages
            ELSE apiMessages
    IN  IF useCoT THEN Append(withSystem, [role |-> "user", content |-> cotPrompt])
        ELSE withSystem

\* callOpenAI(messages, model, apiKey, streaming, useCoT, showThinking,
\* systemPromptContent) builds its URL and its body
CallOpenAI(streaming, useCoT) ==
    /\ UNCHANGED <<chatVars, streamVars, splitVars, unlockVars, prefVars, cryptVars>>
    /\ pPc = "start"
    /\ pRequest' = Request("legacy", "openai",
                           callOpenAIMessages(pHistory, useCoT, pPrompt), <<>>)
    /\ pTarget' = Target("callOpenAI", streaming, "chat/completions")
    /\ pPc' = "sent"
    /\ UNCHANGED <<pHistory, pPrompt, pCall>>

\* sendRequest(messages, model, stream, abortController, useCoT, showThinking)
\* from its start to its fetch call: the checks, the CoT preparation, which
\* writes the caller's last message, the payload of the provider and the URL.
\* When it throws, nothing is fetched.
SendRequest(key, model, stream, useCoT, showThinking) ==
    LET messages == [i \in 1..Len(pHistory) |-> i]
        sr == sendRequestStart(key, pHistory, messages, model, useCoT, showThinking)
        finalMessages == [i \in 1..Len(pHistory) |-> sr.heap[messages[i]]]
    IN  /\ UNCHANGED <<chatVars, streamVars, splitVars, unlockVars, prefVars, cryptVars>>
        /\ pPc = "start"
        /\ pCall' = [key |-> key, model |-> model, threw |-> sr.threw]
        /\ pHistory' = finalMessages
        /\ UNCHANGED pPrompt
        /\ IF sr.fetched THEN
                /\ pTarget' = Target("sendRequest", stream, sendRequestAction(model, stream))
                /\ pRequest' =
                       IF endpointDetails(model).provider = "openai"
                       THEN Request("chat", "openai",
                                    prepareOpenAIPayload(finalMessages, pPrompt), <<>>)
                       ELSE Request("chat", "gemini",
                                    prepareGeminiPayload(finalMessages, pPrompt).contents,
                                    prepareGeminiPayload(finalMessages, pPrompt).systemInstruction)
                /\ pPc' = "sent"
           ELSE
                /\ pTarget' = Target("sendRequest", stream, "none")
                /\ UNCHANGED pRequest
                /\ pPc' = "threw"

\* streamOpenAIRequest(model, messages, onChunk): the body of its fetch is
\* { model, messages, stream: true } with the array it was given
streamOpenAIRequestPayload(messages) == messages

\* streamOpenAIRequest builds the body of its fetch
StreamOpenAIRequest ==
    /\ UNCHANGED <<chatVars, streamVars, splitVars, unlockVars, prefVars, cryptVars>>
    /\ pPc = "start"
    /\ pRequest' = Request("stream", "openai", streamOpenAIRequestPayload(pHistory), <<>>)
    /\ pTarget' = Target("streamOpenAIRequest", TRUE, "chat/completions")
    /\ pPc' = "sent"
    /\ UNCHANGED <<pHistory, pPrompt, pCall>>

\* the contents streamGeminiRequest and the sendMessage of createGeminiSession
\* build, each with its own copy of the same map
sessionContents(chatHistoryValue) ==
    [i \in 1..Len(chatHistoryValue) |->
        [role |-> IF chatHistoryValue[i].role = "assistant" THEN "model" ELSE "user",
         content |-> chatHistoryValue[i].content]]

\* streamGeminiRequest builds its URL (:streamGenerateContent?alt=sse) and
\* its body { contents, generationConfig }
StreamGeminiRequest ==
    /\ UNCHANGED <<chatVars, streamVars, splitVars, unlockVars, prefVars, cryptVars>>
    /\ pPc = "start"
    /\ pRequest' = Request("stream", "gemini", sessionContents(pHistory), <<>>)
    /\ pTarget' = Target("streamGeminiRequest", TRUE, "streamGenerateContent")
    /\ pPc' = "sent"
    /\ UNCHANGED <<pHistory, pPrompt, pCall>>

\* createGeminiSession(model).sendMessage(userText, chatHistory) builds its URL
\* (:generateContent) and its body { contents, generationConfig }; userText
\* is not used
SessionSendMessage ==
    /\ UNCHANGED <<chatVars, streamVars, splitVars, unlockVars, prefVars, cryptVars>>
    /\ pPc = "start"
    /\ pRequest' = Request("session", "gemini", sessionContents(pHistory), <<>>)
    /\ pTarget' = Target("createGeminiSession", FALSE, "generateContent")
    /\ pPc' = "sent"
    /\ UNCHANGED <<pHistory, pPrompt, pCall>>

\* getTokenUsage builds the body of its request
BuildUsageRequest(provider) ==
    /\ UNCHANGED <<chatVars, streamVars, splitVars, unlockVars, prefVars, cryptVars>>
    /\ pPc = "start"
    /\ pTarget' = Target("getTokenUsage", FALSE,
                         IF provider = "openai" THEN "chat/completions" ELSE "generateContent")
    /\ pRequest' =
           IF provider = "openai"
           THEN Request("usage", provider, sendOpenAIRequestPayload(pHistory), <<>>)
           ELSE Request("usage", provider, usageGeminiContents(pHistory), <<>>)
    /\ pPc' = "sent"
    /\ UNCHANGED <<pHistory, pPrompt, pCall>>

PayloadInit ==
    /\ ChatInit
    /\ StreamOff
    /\ SplitOff
    /\ UnlockOff /\ PrefsOff /\ CryptOff
    /\ pPc = "start"
    /\ pHistory \in UNION {[1..n -> HistoryMessages] : n \in 0..MaxHistory}
    /\ pPrompt \in PromptValues
    /\ pRequest = Request("none", "none", <<>>, <<>>)
    /\ pTarget = Target("none", FALSE, "none")
    /\ pCall = NoCall

PayloadNext ==
    \/ \E key \in RequestKeys, model \in RequestModels, stream \in BOOLEAN,
          useCoT \in BOOLEAN, showThinking \in BOOLEAN :
            SendRequest(key, model, stream, useCoT, showThinking)
    \/ StreamOpenAIRequest
    \/ StreamGeminiRequest
    \/ SessionSendMessage
    \/ \E streaming \in BOOLEAN, useCoT \in BOOLEAN : CallOpenAI(streaming, useCoT)
    \/ \E streaming \in BOOLEAN, useCoT \in BOOLEAN : CallGemini(streaming, useCoT)
    \/ \E provider \in {"openai", "gemini"} : BuildUsageRequest(provider)

\* The requests ApiService builds from a history of at most MaxHistory messages.
SpecPayload == PayloadInit /\ [][PayloadNext]_vars

\* init that keeps the key it had when decryption yields a different one
initKeepFirst(key, password) ==
    IF password = <<>> THEN [result |-> FALSE, apiKey |-> key]
    ELSE IF key # <<>> /\ decrypt(ENCRYPTED_OPENAI_KEY, password) # key
         THEN [result |-> FALSE, apiKey |-> key]
    ELSE [result |-> TRUE, apiKey |-> decrypt(ENCRYPTED_OPENAI_KEY, password)]

\* ApiService.init(password) with #apiKey = key: the value returned and the new
\* #apiKey.  decrypt does not throw, so the catch block is never entered.
init(key, password) ==
    IF password = <<>> THEN [result |-> FALSE, apiKey |-> key]
    ELSE [result |-> TRUE, apiKey |-> decrypt(ENCRYPTED_OPENAI_KEY, password)]

\* 'AI-Chat-App-' + window.location.hostname, the key of the password
\* cookie, for a page served from localhost
encryptionKey ==
    <<"A", "I", "-", "C", "h", "a", "t", "-", "A", "p", "p", "-">>
        \o <<"l", "o", "c", "a", "l", "h", "o", "s", "t">>

\* savePasswordToCookie(password): the value setCookie stores (a string of
\* digits, which encodeURIComponent leaves as it is)
savePasswordToCookie(password) == encrypt(password, encryptionKey)

\* getPasswordFromCookie() with the cookie value given: null (<<>>) when the
\* cookie is absent, else the string whose code units decrypt yields
getPasswordFromCookie(cookie) ==
    LET codes == decrypt(cookie, encryptionKey)
    IN  IF cookie = <<>> THEN <<>> ELSE [i \in 1..Len(codes) |-> Ascii[codes[i] - 31]]

\* handleLogin: the login button is clicked, or Enter is pressed in the
\* password box, with text typed and the remember box checked or not.  An
\* empty trimmed text is refused before init is called.  After a success the
\* dialog is hidden (and rememberPassword is merged into the chat settings,
\* a field the chat session does not read).
Unlock(text, remember) ==
    /\ UNCHANGED <<chatVars, streamVars, splitVars, payloadVars, prefVars, cryptVars>>
    /\ uPc = "open"
    /\ LET password == Trim(text)
           r == init(uKey, password)
       IN  IF password = <<>> THEN
                /\ uRejected' = uRejected \cup {[password |-> password, before |-> uKey,
                                                  after |-> uKey]}
                /\ UNCHANGED <<uPc, uKey, uCookie, uReload, uAccepted>>
           ELSE
                /\ UNCHANGED uReload
                /\ uKey' = r.apiKey
                /\ uAccepted' = IF r.result
                                 THEN uAccepted \cup {[password |-> password,
                                                        key |-> r.apiKey]}
                                 ELSE uAccepted
                /\ uRejected' = IF r.result THEN uRejected
                                 ELSE uRejected \cup {[password |-> password,
                                                        before |-> uKey,
                                                        after |-> r.apiKey]}
                /\ uCookie' = IF r.result
                               THEN (IF remember THEN savePasswordToCookie(password)
                                     ELSE uCookie)
                               ELSE <<>>
                /\ uPc' = IF r.result THEN "closed" ELSE "open"

\* The page is loaded again: a new ApiService has no key, and App.init runs
\* checkPasswordOrPrompt, which calls doLogin with the password of the cookie
\* when there is one and shows the login dialog otherwise (or when doLogin
\* failed, after clearing the cookie).
PageLoad ==
    /\ UNCHANGED <<chatVars, streamVars, splitVars, payloadVars, prefVars, cryptVars>>
    /\ uPc # "off"
    /\ uReload' = FALSE
    /\ LET savedPassword == getPasswordFromCookie(uCookie)
           r == init(<<>>, savedPassword)
       IN  IF savedPassword = <<>> THEN
                /\ uKey' = <<>>
                /\ uPc' = "open"
                /\ UNCHANGED <<uCookie, uAccepted, uRejected>>
           ELSE
                /\ uKey' = r.apiKey
                /\ uAccepted' = IF r.result
                                 THEN uAccepted \cup {[password |-> savedPassword,
                                                        key |-> r.apiKey]}
                                 ELSE uAccepted
                /\ uRejected' = IF r.result THEN uRejected
                                 ELSE uRejected \cup {[password |-> savedPassword,
                                                        before |-> <<>>,
                                                        after |-> r.apiKey]}
                /\ uCookie' = IF r.result THEN uCookie ELSE <<>>
                /\ uPc' = IF r.result THEN "closed" ELSE "open"

\* App.logOut(): clearSavedPassword deletes the password cookie and
\* location.reload() asks for the page to be loaded again.  Until PageLoad
\* runs the old page stands: the dialog is as it was, the ApiService still
\* holds its key, and the page still takes events, a second logOut() included.
LogOut ==
    /\ UNCHANGED <<chatVars, streamVars, splitVars, payloadVars, prefVars, cryptVars>>
    /\ uPc # "off"
    /\ uCookie' = <<>>
    /\ uReload' = TRUE
    /\ UNCHANGED <<uPc, uKey, uAccepted, uRejected>>

\* the page after its first load without a password cookie
UnlockInit ==
    /\ ChatInit
    /\ StreamOff
    /\ SplitOff
    /\ PayloadOff
    /\ PrefsOff /\ CryptOff
    /\ uPc = "open"
    /\ uKey = <<>>
    /\ uCookie = <<>>
    /\ uReload = FALSE
    /\ uAccepted = {}
    /\ uRejected = {}

UnlockNext ==
    \/ \E text \in UnlockPasswords, remember \in BOOLEAN : Unlock(text, remember)
    \/ PageLoad
    \/ LogOut

\* The login dialog, the page loads and the log-outs, with the texts of
\* UnlockPasswords.
SpecUnlock == UnlockInit /\ [][UnlockNext]_vars

\* _loadSettings(): the settings read from the storage
loadSettings(storage) ==
    [selectedModel |-> IF storage.selectedModel # <<>> THEN storage.selectedModel
                       ELSE ModelGptMini,
     streaming |-> storage.useStreaming = "true",
     enableCoT |-> storage.enableCot = "true",
     showThinking |-> storage.showThinking = "true"]

\* value.toString() of a boolean
BoolToString(b) == IF b THEN "true" ELSE "false"

\* SettingsController.init(onSettingsSaved): the modal is created and
\* _loadSettings() runs
SettingsInit ==
    /\ UNCHANGED <<chatVars, streamVars, splitVars, payloadVars, unlockVars, cryptVars>>
    /\ gPc = "constructed"
    /\ ctlSettings' = loadSettings(localStorage)
    /\ gPc' = "loaded"
    /\ UNCHANGED localStorage

\* _saveSettings(): the values of the modal's controls become the settings and
\* are written to localStorage
SaveSettings(model, streamingEnabled, cotEnabled, showThinkingEnabled) ==
    /\ UNCHANGED <<chatVars, streamVars, splitVars, payloadVars, unlockVars, cryptVars>>
    /\ gPc \in {"loaded", "saved"}
    /\ ctlSettings' = [selectedModel |-> model, streaming |-> streamingEnabled,
                       enableCoT |-> cotEnabled, showThinking |-> showThinkingEnabled]
    /\ localStorage' = [selectedModel |-> model,
                        useStreaming |-> BoolToString(streamingEnabled),
                        enableCot |-> BoolToString(cotEnabled),
                        showThinking |-> BoolToString(showThinkingEnabled)]
    /\ gPc' = "saved"

PrefsInit ==
    /\ ChatInit
    /\ StreamOff
    /\ SplitOff
    /\ PayloadOff
    /\ UnlockOff /\ CryptOff
    /\ gPc = "constructed"
    /\ localStorage \in [selectedModel : StoredModels, useStreaming : StoredFlags,
                          enableCot : StoredFlags, showThinking : StoredFlags]
    /\ ctlSettings = DeclaredSettings

PrefsNext ==
    \/ SettingsInit
    \/ \E model \in {ModelGptMini, ModelGeminiFlash}, a \in BOOLEAN, b \in BOOLEAN, c \in BOOLEAN :
           SaveSettings(model, a, b, c)

\* The SettingsController from its construction, on every content of the storage.
SpecPrefs == PrefsInit /\ [][PrefsNext]_vars

Encrypt ==
    /\ UNCHANGED <<chatVars, streamVars, splitVars, payloadVars, unlockVars, prefVars>>
    /\ kPc = "start"
    /\ kCipher' = encrypt(kText, kKey)
    /\ kPc' = "encrypted"
    /\ UNCHANGED <<kText, kKey, kPlain>>

Decrypt ==
    /\ UNCHANGED <<chatVars, streamVars, splitVars, payloadVars, unlockVars, prefVars>>
    /\ kPc = "encrypted"
    /\ kPlain' = decrypt(kCipher, kKey)
    /\ kPc' = "decrypted"
    /\ UNCHANGED <<kText, kKey, kCipher>>

CryptInit ==
    /\ ChatInit
    /\ StreamOff
    /\ SplitOff
    /\ PayloadOff
    /\ UnlockOff /\ PrefsOff
    /\ kPc = "start"
    /\ kText \in UNION {[1..n -> TextChars] : n \in 0..MaxText}
    /\ kKey \in UNION {[1..n -> KeyChars] : n \in 1..MaxKey}
    /\ kCipher = <<>>
    /\ kPlain = <<>>

CryptNext == Encrypt \/ Decrypt

\* encrypt and then decrypt, on printable ASCII texts and keys
SpecCrypt == CryptInit /\ [][CryptNext]_vars

(***************************************************************************)
(* Properties.                                                             *)
(***************************************************************************)
\* the history the exchange of call c starts from, with the user's message
\* appended
WithUserMessage(c) == Append(ex[c].before, [role |-> "user", content |-> ex[c].user])

\* C1: after a CoT-enabled exchange completes, the content of the assistant
\* message appended to chatHistory contains no "Thinking:".
C1_NoThinkingInHistory ==
    \A c \in Calls :
        (ex[c].appended # <<>> /\ ex[c].appendedCoT)
            => ~Includes(ex[c].appended[1], ThinkingMarker)

\* C2: when reader.read() rejects with AbortError during a streaming exchange,
\* no assistant entry is appended to chatHistory for that exchange.
C2_AbortAppendsNothing == \A c \in Calls : ex[c].aborted => ex[c].appended = <<>>

\* C3: once the read of a streaming exchange was aborted, that exchange issues
\* no further read and writes nothing more to the AI message.
C3_NoReadOrDeltaAfterAbort ==
    [][\A c \in Calls :
          (ex[c].aborted /\ nSent' = nSent)
              => (ex'[c].reads = ex[c].reads /\ ex'[c].deltas = ex[c].deltas
                  /\ display'[c] = display[c])]_vars

\* an abort that fired after a delta was shown and with chunks still unread,
\* in an exchange that then ran to its end
C3_Witness ==
    \E c \in Calls : ex[c].aborted /\ ex[c].deltas > 0 /\ ex[c].unread > 0 /\ pc[c] = "idle"

\* the result of reading the whole response in a single read followed by the
\* end of the body
WholeRead(provider, response) ==
    LET first == StreamPass(provider, <<>>, response, FALSE, LoopState(<<>>, <<>>, FALSE))
    IN  IF first.acc.done THEN first.acc
        ELSE StreamPass(provider, first.buffer, <<>>, TRUE, first.acc).acc

\* C4: however the response is split into reads, streamOpenAIRequest returns
\* the reply and emits the deltas it does when the whole response arrives in one
\* read.
C4_ChunkBoundaryInvariant ==
    (sPc = "returned" /\ sProvider = "openai")
        => /\ sLoop.fullReply = WholeRead(sProvider, sResponse).fullReply
           /\ sLoop.chunks = WholeRead(sProvider, sResponse).chunks

\* a call whose response arrived in more than one read and that returned
\* after emitting the deltas of two frames
C4_Witness ==
    sPc = "returned" /\ sProvider = "openai" /\ sReads = 2 /\ Len(sLoop.chunks) = 2

\* C5: in streamOpenAIRequest no line is examined after a [DONE] line, and after
\* it nothing is appended, no delta is emitted and nothing more is read.
C5_DoneTerminates ==
    /\ [](sProvider = "openai" => sLoop.afterDone = 0)
    /\ [][(sProvider = "openai" /\ sLoop.sawDone) => UNCHANGED <<sLoop, sWire>>]_vars

\* [DONE] was processed in a read that also carried a partial line, with more
\* of the response still unread
C5_Witness ==
    sProvider = "openai" /\ sLoop.sawDone /\ sPc = "returned" /\ sBuffer # <<>> /\ sWire # <<>>

\* every frame ends its event (Provider A) or its line (Provider B)
WellFramed(provider, frames) ==
    \A i \in 1..Len(frames) :
        IF provider = "openai" THEN frames[i].term \in {BlankLine, BlankLineCRLF}
        ELSE frames[i].term # <<>>

\* the deltas of the frames before the first [DONE], malformed frames left out
RECURSIVE ExpectedDeltas(_)
ExpectedDeltas(frames) ==
    IF frames = <<>> \/ Head(frames).kind = "Done" THEN <<>>
    ELSE IF Head(frames).kind = "A" THEN << <<"a">> >> \o ExpectedDeltas(Tail(frames))
    ELSE IF Head(frames).kind = "B" THEN << <<"b">> >> \o ExpectedDeltas(Tail(frames))
    ELSE ExpectedDeltas(Tail(frames))

\* C6: a frame with malformed JSON is skipped and every valid frame after it is
\* still processed: the deltas emitted are those of the valid frames, in both
\* stream functions.
C6_MalformedFrameSkipped ==
    (sPc = "returned" /\ WellFramed(sProvider, sFrames))
        => sLoop.chunks = ExpectedDeltas(sFrames)

\* a returned call whose first frame was malformed and whose second frame
\* delivered its delta
C6_Witness ==
    /\ sPc = "returned" /\ WellFramed(sProvider, sFrames)
    /\ Len(sFrames) >= 2
    /\ sFrames[1].kind = "Malformed" /\ sFrames[2].kind \in {"A", "B"}
    /\ sLoop.chunks # <<>>

\* C7: sendRequest with CoT enabled leaves the content of every message of the
\* history it was given as it was.
C7_SendRequestKeepsHistory ==
    \A c \in Calls :
        (pc[c] = "fetch" /\ ex[c].cot /\ ~ex[c].cleared)
            => \A i \in 1..Len(chatHistory) :
                   HistoryView[i].content = WithUserMessage(c)[i].content

\* C8: an exchange that ends in an upstream or transport error shows an error
\* and leaves the history it started from plus the user's own message.
C8_ErrorLeavesHistory ==
    \A c \in Calls :
        (pc[c] = "idle" /\ ex[c].outcome \in {"upstream_error", "network_error"}
           /\ ~ex[c].cleared)
            => (display[c].kind = "error" /\ HistoryView = WithUserMessage(c))

C10_UsageFailureIsSilent ==
    [][\A c \in Calls :
          (pc[c] \in {"usage", "usageBody"} /\ pc'[c] = "idle" /\ ex'[c].usageFailed)
              => (totalTokens' = totalTokens /\ chatHistory' = chatHistory /\ heap' = heap
                  /\ display' = display)]_vars

\* a completed exchange whose token usage fetch failed: the reply is in the
\* history and no error is shown
C10_Witness ==
    \E c \in Calls :
        /\ pc[c] = "idle" /\ ex[c].usageDone /\ ex[c].usageFailed
        /\ ex[c].outcome = "completed"
        /\ Len(chatHistory) = 2 /\ HistoryView[2].role = "ai" /\ display[c].kind = "text"

\* t is s without its leading and trailing white space
IsTrimOf(t, s) ==
    /\ t = <<>> \/ (t[1] \notin WhiteSpace /\ t[Len(t)] \notin WhiteSpace)
    /\ \E a \in 0..Len(s), b \in 0..Len(s) :
          /\ a + b <= Len(s)
          /\ \A i \in 1..a : s[i] \in WhiteSpace
          /\ \A i \in (Len(s) - b + 1)..Len(s) : s[i] \in WhiteSpace
          /\ t = SubSeq(s, a + 1, Len(s) - b)

\* the positions at which marker m occurs in s
Occurrences(s, m) == {i \in 1..(Len(s) - Len(m) + 1) : SubSeq(s, i, i + Len(m) - 1) = m}

\* the position of the first occurrence of m in s at or after position from
FirstAt(s, m, from) ==
    CHOOSE i \in Occurrences(s, m) : i >= from /\ \A j \in Occurrences(s, m) : j >= from => i <= j

\* the text of s after its first m
AfterFirst(s, m) == SubSeq(s, FirstAt(s, m, 1) + Len(m), Len(s))

\* the text of s between its first "Thinking:" and the next "Answer:", or the
\* end of s when no "Answer:" follows
BetweenMarkers(s) ==
    LET start == FirstAt(s, ThinkingMarker, 1) + Len(ThinkingMarker)
    IN  IF \E j \in Occurrences(s, AnswerMarker) : j >= start
        THEN SubSeq(s, start, FirstAt(s, AnswerMarker, start) - 1)
        ELSE SubSeq(s, start, Len(s))

\* C11: for a cumulative text with "Thinking:" and without "Answer:" the partial
\* view has the trimmed text after "Thinking:" as thinking, an empty answer and
\* partial set.
C11_PartialThinkingView ==
    (cPc = "stream" /\ Occurrences(cText, ThinkingMarker) # {}
                    /\ Occurrences(cText, AnswerMarker) = {})
        => /\ IsTrimOf(cView.thinking, AfterFirst(cText, ThinkingMarker))
           /\ cView.answer = <<>>
           /\ cView.partial

\* text precedes "Thinking:", and the thinking shown was trimmed on both sides
C11_Witness ==
    /\ cPc = "stream" /\ cText = <<"b">> \o ThinkingMarker \o <<" ", "a", " ">>
    /\ cView.thinking = <<"a">> /\ cView.partial

\* C12: for a text with both markers the view has the trimmed text between
\* "Thinking:" and the next "Answer:" (or the end) as thinking, the trimmed text
\* after "Answer:" as answer, and partial is not set; in processCoTResponse too.
C12_BothMarkersView ==
    (cPc \in {"stream", "shown"} /\ Occurrences(cText, ThinkingMarker) # {}
                                 /\ Occurrences(cText, AnswerMarker) # {})
        => /\ IsTrimOf(cView.thinking, BetweenMarkers(cText))
           /\ IsTrimOf(cView.answer, AfterFirst(cText, AnswerMarker))
           /\ ~cView.partial

\* "Thinking: a Answer:b" streamed in four chunks
C12_Witness ==
    /\ cPc = "stream" /\ cRest = <<>> /\ Len(cText) > Len(ThinkingMarker) + Len(AnswerMarker)
    /\ cView.thinking = <<"a">> /\ cView.answer = <<"b">> /\ ~cView.partial

\* C13: with CoT enabled and show-thinking disabled, a view without an answer
\* is never displayed as the empty string.
C13_PlaceholderWhenNoAnswer ==
    (cPc \in {"stream", "shown"} /\ ~cShowThinking /\ cView.answer = <<>>)
        => cShown # <<>>

\* C14: at the end of a stream the answer stored in the history is the answer
\* the streaming splitter resolves from the complete text.
C14_StoredAnswerIsSplitterAnswer ==
    (cPc = "stored") => cFinal.answer = processPartialCoTResponse(cText).answer

\* the provider the endpoint table gives for a model id
TableProvider(model) ==
    IF model \notin DOMAIN API_ENDPOINTS THEN "none"
    ELSE IF API_ENDPOINTS[model] = "openai" THEN "openai" ELSE "gemini"

\* the provider the prefix of a model id names
PrefixProvider(model) ==
    IF SubSeq(model, 1, Min(3, Len(model))) = GptPrefix THEN "openai"
    ELSE IF SubSeq(model, 1, Min(6, Len(model))) = GeminiPrefix
            \/ SubSeq(model, 1, Min(5, Len(model))) = GemmaPrefix THEN "gemini"
    ELSE "none"

\* C15: with a key set, an exchange whose model id has the GPT prefix or the
\* gemini / gemma prefix fetches from that provider, any other id ends as
\* unsupported, and the endpoint table names the provider the prefix names.
C15_DispatchByPrefix ==
    \A c \in Calls :
        (ex[c].outcome # "none" /\ ex[c].key # <<>>)
            => /\ TableProvider(ex[c].model) = PrefixProvider(ex[c].model)
               /\ (PrefixProvider(ex[c].model) # "none")
                      => (ex[c].fetches > 0 /\ ex[c].outcome # "unsupported_model")
               /\ (PrefixProvider(ex[c].model) = "none")
                      => (ex[c].fetches = 0 /\ ex[c].outcome = "unsupported_prefix")

\* C16: a final frame that the end of the stream terminates, with every frame
\* before it delimited, is decoded: its delta is among the deltas emitted.
C16_EndOfStreamTerminatesFrame ==
    (/\ sPc = "returned" /\ sFrames # <<>>
     /\ WellFramed(sProvider, Front(sFrames))
     /\ Last(sFrames).term = <<>>)
        => /\ sLoop.chunks = ExpectedDeltas(sFrames)
           /\ sLoop.fullReply = Flatten(ExpectedDeltas(sFrames))

\* the text delta a frame carries, <<>> when it carries none
FrameDelta(frame) ==
    IF frame.kind = "A" THEN <<"a">> ELSE IF frame.kind = "B" THEN <<"b">> ELSE <<>>

\* the number of leading frames whose data line has been read completely
FramesReceived ==
    LET read == Len(sResponse) - Len(sWire)
        lineEnd(i) == Len(Render(sProvider, SubSeq(sFrames, 1, i))) - Len(sFrames[i].term)
    IN  Cardinality({i \in 1..Len(sFrames) : lineEnd(i) <= read})

\* c can be obtained from d by leaving entries out, keeping the order
RECURSIVE Embeds(_, _)
Embeds(c, d) ==
    IF c = <<>> THEN TRUE
    ELSE IF d = <<>> THEN FALSE
    ELSE IF Head(c) = Head(d) THEN Embeds(Tail(c), Tail(d))
    ELSE Embeds(c, Tail(d))

\* C17: at every point of a stream function the deltas handed to onChunk are,
\* in frame order and at most one per frame, deltas of frames already received
\* completely, and fullReply is their concatenation in that order.
C17_DeltasInArrivalOrder ==
    /\ Embeds(sLoop.chunks,
              [i \in 1..FramesReceived |-> FrameDelta(sFrames[i])])
    /\ sLoop.fullReply = Flatten(sLoop.chunks)

\* two frames with different deltas, both emitted, the second frame's last
C17_Witness ==
    /\ sFrames # <<>> /\ sLoop.chunks = << <<"b">>, <<"a">> >>
    /\ sLoop.fullReply = <<"b", "a">>

\* C18: an exchange whose fetch was aborted (sendRequest caught the AbortError)
\* ends without an error shown and without an entry appended for the reply.
C18_CancellationIsSilent ==
    \A c \in Calls :
        (pc[c] = "idle" /\ ex[c].outcome = "fetch_aborted")
            => (display[c].kind # "error" /\ ex[c].appended = <<>>)

\* C19: when every network call settles, a started exchange always comes back
\* to idle, and at idle isThinking is false and the input is enabled.
C19_ReturnsToIdle ==
    /\ []((InFlight = {}) => (~isThinking /\ ~inputDisabled))
    /\ (InFlight # {}) ~> (InFlight = {} /\ ~isThinking /\ ~inputDisabled)

\* an exchange that was cancelled while its body was read and that ran to its
\* end, with the input enabled again
C19_Witness ==
    \E c \in Calls :
        /\ pc[c] = "idle" /\ nSent > 0 /\ ex[c].outcome = "read_aborted" /\ ex[c].usageDone
        /\ ~isThinking /\ ~inputDisabled

\* C20: every step leaves the history as it is, clears it, or appends one entry
\* to it; an entry keeps the content it was pushed with (sendMessage pushes the
\* user's message, which is still the content of that entry when its step ends).
C20_HistoryAppendOnly ==
    [][\/ HistoryView' = HistoryView
       \/ HistoryView' = <<>>
       \/ /\ Len(HistoryView') = Len(HistoryView) + 1
          /\ SubSeq(HistoryView', 1, Len(HistoryView)) = HistoryView
          /\ (HistoryView'[Len(HistoryView')].role = "user")
                 => \E c \in Calls :
                        /\ pc[c] = "idle" /\ ex'[c] # ex[c]
                        /\ HistoryView'[Len(HistoryView')].content = ex'[c].user]_vars

\* the leading system message of a request, if it has one
SystemEntries(request) ==
    IF request.messages # <<>> /\ request.messages[1].role = "system"
    THEN <<request.messages[1]>> ELSE <<>>

\* the entries of a request that stand for history turns: all but a leading
\* system message and a pushed entry that holds cotPrompt
HistoryTurns(request) ==
    LET afterSystem == SubSeq(request.messages, Len(SystemEntries(request)) + 1,
                              Len(request.messages))
        n == Len(afterSystem)
    IN  IF n > 0 /\ afterSystem[n].content = cotPrompt
        THEN SubSeq(afterSystem, 1, n - 1) ELSE afterSystem

\* a request carries the history in order: one entry per message with the
\* text of the message, the last one possibly followed by the CoT text
\* callGemini appends
CarriesHistory(turns, history) ==
    /\ Len(turns) = Len(history)
    /\ \A i \in 1..Len(history) :
           \/ turns[i].content = history[i].content
           \/ /\ i = Len(history)
              /\ turns[i].content
                     = history[i].content \o TwoNewlines \o TemplateText(cotPrompt)

\* the role a provider expects for a history entry
ProviderRole(provider, role) ==
    IF role = "ai" THEN (IF provider = "openai" THEN "assistant" ELSE "model") ELSE "user"

\* C21: every request built from the history, the token usage request
\* included, carries each history entry with the provider's role name.
C21_RolesNormalized ==
    (pPc = "sent")
        => /\ Len(HistoryTurns(pRequest)) = Len(pHistory)
           /\ \A i \in 1..Len(pHistory) :
                  HistoryTurns(pRequest)[i].role = ProviderRole(pRequest.provider, pHistory[i].role)

\* C22: with a system prompt a Provider A payload starts with it as a system
\* message followed by the history in order, a Provider B payload has it in
\* systemInstruction only and one contents entry per message; without a prompt
\* neither has a system entry.
C22_SystemPromptPlacement ==
    (pPc = "sent")
        => IF pRequest.provider = "openai"
           THEN /\ SystemEntries(pRequest) =
                       (IF pPrompt # <<>> THEN <<[role |-> "system", content |-> pPrompt]>>
                        ELSE <<>>)
                /\ CarriesHistory(HistoryTurns(pRequest), pHistory)
                /\ \A i \in 1..Len(HistoryTurns(pRequest)) :
                       HistoryTurns(pRequest)[i].role # "system"
           ELSE /\ pRequest.systemInstruction = (IF pPrompt # <<>> THEN <<pPrompt>> ELSE <<>>)
                /\ CarriesHistory(HistoryTurns(pRequest), pHistory)
                /\ \A i \in 1..Len(pRequest.messages) :
                       pRequest.messages[i].role \in {"user", "model"}

\* C23: init returns true only for a password that decrypts the stored key
\* correctly (so all accepted passwords yield one and the same key), and a
\* call that returns false leaves the stored key unchanged.
C23_UnlockRejectsWrongPassword ==
    /\ \A a \in uAccepted, b \in uAccepted : a.key = b.key
    /\ \A r \in uRejected : r.after = r.before

\* C24: at most one exchange is in flight: no two calls of sendMessage are
\* between the append of their user message and their finally block at the
\* same time, a call starts only when none is in flight, and a step that
\* changes chatHistory or the token total while a call is in flight is a step
\* of that one call (or clearChat).
C24_OneExchangeInFlight ==
    /\ [](Cardinality(InFlight) <= 1)
    /\ [][nSent' # nSent => InFlight = {}]_vars
    /\ [][(chatHistory' # chatHistory \/ totalTokens' # totalTokens)
             => \/ InFlight = {}
                \/ chatHistory' = <<>>
                \/ \E c \in Calls : InFlight = {c} /\ ex'[c] # ex[c]]_vars

\* while an exchange is reading its response a second send was attempted, and
\* the disabled controls did not deliver it: still one call, one user message
C24_Witness ==
    \E c \in Calls :
        /\ pc[c] = "read" /\ ex[c].refused /\ ex[c].outcome = "pending"
        /\ InFlight = {c} /\ nSent = 1 /\ Len(chatHistory) = 1

\* C27: after clearChat the history is empty and the token total is zero
\* until the next user message is sent.
C27_ClearedUntilNextMessage ==
    \A c \in Calls : ex[c].cleared => (chatHistory = <<>> /\ totalTokens = 0)

\* the text of a line's document as the specification extracts it: the
\* delta content for Provider A, the text of the last part for Provider B
LineText(provider, frame) ==
    LET parsed == JsonParse(Payload(provider, frame.kind))
        parts == parsed.value.parts
    IN  IF OpenAIFormat(provider) THEN parsed.value.deltaContent
        ELSE IF parts = <<>> THEN <<>> ELSE Last(parts)

LineTexts(provider, frames) == [i \in 1..Len(frames) |-> LineText(provider, frames[i])]

\* C25: in the ChatController loop the text rendered after each read and
\* finalized at the end is the concatenation of the deltas of leading frames of
\* the response, never raw wire text.
C25_ChatTextIsDeltas ==
    (sProvider = "chat")
        => \E n \in 0..Len(sFrames) :
              sLoop.fullReply = Flatten(LineTexts(sProvider, SubSeq(sFrames, 1, n)))

\* C26: in every read loop each step leaves the cumulative text as it was or
\* appends to it, up to the return of the function.
C26_CumulativeTextGrows ==
    [][StartsWith(sLoop.fullReply', sLoop.fullReply)]_vars

\* C28: both Provider B loops take the text of the last part of a document:
\* on a response without unparseable lines the text they return is the
\* concatenation of the last parts' texts.
C28_LastPartIsDelta ==
    (/\ sPc = "returned" /\ sProvider \in {"gemini", "hsr_gemini"} /\ ~sCot
     /\ \A i \in 1..Len(sFrames) : sFrames[i].kind # "Malformed")
        => sLoop.fullReply = Flatten(LineTexts(sProvider, sFrames))

\* C29: streamGeminiRequest does not call onChunk for a document whose last
\* part has no text: no chunk handed to the callback is empty.
C29_EmptyTextSkipped ==
    (sProvider = "gemini") => \A i \in 1..Len(sLoop.chunks) : sLoop.chunks[i] # <<>>

\* C30: however the response is split into reads, the gemini branch of
\* handleStreamingResponse emits the deltas and returns the text it does when
\* the whole response arrives in one read.
C30_NdjsonBoundaryInvariant ==
    (sPc = "returned" /\ sProvider = "hsr_gemini")
        => /\ sLoop.chunks = WholeRead(sProvider, sResponse).chunks
           /\ sLoop.fullReply = HsrFinish(WholeRead(sProvider, sResponse).fullReply, sCot)

\* the texts of the lines before the first [DONE] line
RECURSIVE TextsBeforeDone(_, _)
TextsBeforeDone(provider, frames) ==
    IF frames = <<>> \/ Head(frames).kind = "Done" THEN <<>>
    ELSE <<LineText(provider, Head(frames))>> \o TextsBeforeDone(provider, Tail(frames))

\* C31: in the openai branch of handleStreamingResponse, once a [DONE] line
\* has been seen no further read is issued and the response holds the deltas
\* of the lines before it only.
C31_DoneEndsLegacyStream ==
    (sProvider = "hsr_openai" /\ ~sCot /\ sLoop.sawDone)
        => /\ sPc = "returned"
           /\ sLoop.fullReply = Flatten(TextsBeforeDone(sProvider, sFrames))

\* s without its line feeds
RECURSIVE WithoutNewlines(_)
WithoutNewlines(s) ==
    IF s = <<>> THEN <<>>
    ELSE (IF Head(s) = "\n" THEN <<>> ELSE <<Head(s)>>) \o WithoutNewlines(Tail(s))

\* C34: the gemini branch of handleStreamingResponse keeps unparsed lines in
\* arrival order: on a response none of whose lines parses, the carry-over
\* buffer holds, line feeds aside, the text read so far.
C34_RequeueKeepsOrder ==
    (/\ sProvider = "hsr_gemini" /\ sPc = "read"
     /\ \A i \in 1..Len(sFrames) : sFrames[i].kind \in {"Malformed", "Done"})
        => WithoutNewlines(sBuffer)
              = WithoutNewlines(SubSeq(sResponse, 1, Len(sResponse) - Len(sWire)))

\* C32: a Provider B request of sendRequest or callGemini goes to
\* streamGenerateContent when the stream flag is true and to generateContent
\* when it is false.
C32_StreamFlagChoosesAction ==
    (pPc = "sent" /\ pRequest.provider = "gemini"
       /\ pTarget.caller \in {"sendRequest", "callGemini"})
        => pTarget.action = (IF pTarget.stream THEN "streamGenerateContent"
                             ELSE "generateContent")

\* C33: with CoT and show-thinking enabled a structured view of a text with an
\* answer is shown as "Thinking: <thinking>", a blank line, "Answer: <answer>",
\* and a structured view of a text without an answer as "Thinking: <thinking>";
\* with CoT disabled, or for an unstructured view, the answer is shown verbatim.
C33_DisplayFormat ==
    (cPc = "formatted")
        => IF ~settings.enableCoT \/ ~cView.hasStructuredResponse
           THEN cShown = cView.answer
           ELSE settings.showThinking
                    => IF Occurrences(cText, AnswerMarker) = {}
                       THEN cShown = ThinkingMarker \o <<" ">> \o cView.thinking
                       ELSE cShown = ThinkingMarker \o <<" ">> \o cView.thinking
                                         \o <<"\n", "\n">> \o AnswerMarker \o <<" ">>
                                         \o cView.answer

\* a partial thinking view shown with its label while an earlier turn's answer
\* is held in the view
C33_Witness ==
    /\ cPc = "formatted" /\ settings.enableCoT /\ settings.showThinking
    /\ cView.hasStructuredResponse /\ cView.partial /\ cView.answer # <<>>
    /\ cShown = ThinkingMarker \o <<" ", "a">>

\* C35: the assistant content persisted for a response text is the one a
\* fresh session persists for it: it does not depend on what earlier turns left
\* in the controller.
C35_NoCrossTurnLeakage ==
    (cPc \in {"stored", "shown"})
        => cFinal.answer = processCoTResponse(cText, <<>>, <<>>).processed.answer

\* C36: every assistant entry of chatHistory comes right after a user entry;
\* the history never starts with an assistant entry.
C36_AssistantFollowsUser ==
    \A i \in 1..Len(HistoryView) :
        (HistoryView[i].role = "ai") => (i > 1 /\ HistoryView[i - 1].role = "user")

\* the outcomes of an exchange that ended in an error
ErrorOutcomes ==
    {"missing_key", "unsupported_model", "upstream_error", "network_error", "read_error"}

\* C37: an exchange that ended in an error, with no assistant entry appended,
\* issues no token usage request and leaves totalTokens as it was.
C37_NoUsageAfterError ==
    \A c \in Calls :
        (ex[c].outcome \in ErrorOutcomes /\ ex[c].appended = <<>> /\ ~ex[c].cleared)
            => /\ pc[c] \notin {"usage", "usageBody"}
               /\ ~ex[c].usageDone

\* C38: after SettingsController.init on a storage without preferences
\* getSettings() returns the declared defaults.
C38_DefaultsWithoutStorage ==
    (gPc = "loaded" /\ localStorage = EmptyStorage) => ctlSettings = DeclaredSettings

\* C39: decrypt(encrypt(text, key), key) is the text, and encrypt yields three
\* decimal digits for each character of the text.
C39_CipherRoundTrip ==
    /\ (kPc \in {"encrypted", "decrypted"})
          => /\ Len(kCipher) = 3 * Len(kText)
             /\ \A i \in 1..Len(kCipher) : \E d \in 1..10 : kCipher[i] = DigitChars[d]
    /\ (kPc = "decrypted") => kPlain = [i \in 1..Len(kText) |-> CharCode(kText[i])]

\* a three-character text whose codes are below 100 and below 10 after the XOR
C39_Witness ==
    /\ kPc = "decrypted" /\ kText = <<"a", "~", " ">> /\ kKey = <<"a", " ">>
    /\ kCipher = <<"0", "0", "0", "0", "9", "4", "0", "6", "5">>
    /\ kPlain = <<97, 126, 32>>

====
